---- MODULE Spec2Model ----
(***************************************************************************)
(* Model of yarl's percent-encoding quoter (_Quoter) and unquoter          *)
(* (_Unquoter).  A string is a sequence of code points (naturals); a       *)
(* bit table is the set of the code points whose bit is set.               *)
(***************************************************************************)
EXTENDS Integers, Sequences, FiniteSets, TLC

(* ------------------------------ bounds --------------------------------- *)

\* longest input string drawn from Alphabet
MaxLen == 3
\* size of the static output buffer (8 KiB in the source), scaled down so that
\* the inputs of the model make the writer grow
BUF_SIZE == 8
\* number of allocations the allocator grants to one call when it does not fail
MaxAllocs == 3
\* longest input of the unquoter, in tokens (a character or a %HH escape)
MaxTokens == 3

\* the threads that call the quoter at the same time
MaxThreads == 2

(* --------------------------- characters -------------------------------- *)

Range(s) == {s[i] : i \in 1..Len(s)}

ascii_letters == (65..90) \cup (97..122)
digits == 48..57

\* ":/?#[]@"
GEN_DELIMS == {58, 47, 63, 35, 91, 93, 64}
\* "!$'()*,"
SUB_DELIMS_WITHOUT_QS == {33, 36, 39, 40, 41, 42, 44}
\* SUB_DELIMS_WITHOUT_QS + '+?=;'
SUB_DELIMS == SUB_DELIMS_WITHOUT_QS \cup {43, 63, 61, 59}
RESERVED == GEN_DELIMS \cup SUB_DELIMS
\* ascii_letters + digits + '-._~'
UNRESERVED == ascii_letters \cup digits \cup {45, 46, 95, 126}
ALLOWED == UNRESERVED \cup SUB_DELIMS_WITHOUT_QS
\* '+&=;'
QS == {43, 38, 61, 59}

_to_hex_lower(v) == IF v < 10 THEN v + 48 ELSE v + 97 - 10

_to_hex(v) == IF v < 10 THEN v + 48 ELSE v + 65 - 10

_from_hex(v) ==
    IF 48 <= v /\ v <= 57 THEN v - 48
    ELSE IF 65 <= v /\ v <= 70 THEN v - 65 + 10
    ELSE IF 97 <= v /\ v <= 102 THEN v - 97 + 10
    ELSE -1

_restore_ch(d1, d2) ==
    IF _from_hex(d1) < 0 THEN -1
    ELSE IF _from_hex(d2) < 0 THEN -1
    ELSE _from_hex(d1) * 16 + _from_hex(d2)

\* the bit of ch in a table
bit_at(array, ch) == ch \in array

set_bit(array, ch) == array \cup {ch}

ALLOWED_TABLE_QS == {i \in 0..127 : i \in ALLOWED \/ i \in QS}

ALLOWED_TABLE == {i \in 0..127 : i \in ALLOWED}

ALLOWED_NOTQS_TABLE == {i \in 0..127 : i \in ALLOWED \/ i \in QS}

U8(x) == x % 256

(* ------------------------------ writer --------------------------------- *)

\* buf holds the pos characters written so far; heap tells that buf is no
\* longer the static BUFFER; avail is the number of allocations the
\* allocator will still grant; err is set once a write has returned -1
_init_writer(avail) ==
    [buf |-> <<>>, size |-> BUF_SIZE, pos |-> 0, changed |-> FALSE,
     heap |-> FALSE, avail |-> avail, err |-> FALSE]

\* the buffer grows only once a character has been stored past its end
_write_char_late(writer, ch, changed) ==
    IF writer.err THEN writer
    ELSE IF writer.pos = writer.size + 1 /\ writer.avail = 0
    THEN [writer EXCEPT !.err = TRUE]
    ELSE LET w == IF writer.pos = writer.size + 1
                  THEN [writer EXCEPT !.size = writer.size * 2,
                                      !.heap = TRUE,
                                      !.avail = writer.avail - 1]
                  ELSE writer
         IN [w EXCEPT !.buf = Append(w.buf, U8(ch)),
                      !.pos = w.pos + 1,
                      !.changed = w.changed \/ changed]

_write_char(writer, ch, changed) ==
    IF writer.err THEN writer
    ELSE IF writer.pos = writer.size /\ writer.avail = 0
    THEN [writer EXCEPT !.err = TRUE]
    ELSE LET w == IF writer.pos = writer.size
                  THEN [writer EXCEPT !.size = writer.size * 2,
                                      !.heap = TRUE,
                                      !.avail = writer.avail - 1]
                  ELSE writer
         IN [w EXCEPT !.buf = Append(w.buf, U8(ch)),
                      !.pos = w.pos + 1,
                      !.changed = w.changed \/ changed]

\* _write_pct with lowercase digits, unlike those of _write_pct_check
_write_pct_lower(writer, ch, changed) ==
    _write_char(
        _write_char(
            _write_char(writer, 37, changed),
            _to_hex_lower(U8(ch) \div 16), changed),
        _to_hex_lower(U8(ch) % 16), changed)

_write_pct(writer, ch, changed) ==
    _write_char(
        _write_char(
            _write_char(writer, 37, changed),
            _to_hex(U8(ch) \div 16), changed),
        _to_hex(U8(ch) % 16), changed)

_write_percent(writer) ==
    _write_char(_write_char(_write_char(writer, 37, TRUE), 50, TRUE), 53, TRUE)

_write_pct_check(writer, ch, pct) ==
    LET pct1 == _to_hex(U8(ch) \div 16)
        pct2 == _to_hex(U8(ch) % 16)
        changed == pct[1] # pct1 \/ pct[2] # pct2
    IN _write_char(_write_char(_write_char(writer, 37, changed),
                               pct1, changed),
                   pct2, changed)

\* _write_utf8 with U+0800 taken into the two-byte form
_write_utf8_two(writer, symbol) ==
    LET utf == symbol
    IN IF utf < 128 THEN _write_pct(writer, U8(utf), TRUE)
       ELSE IF utf <= 2048
       THEN _write_pct(_write_pct(writer, U8(192 + (utf \div 64)), TRUE),
                       U8(128 + (utf % 64)), TRUE)
       ELSE IF 55296 <= utf /\ utf <= 57343 THEN writer
       ELSE IF utf < 65536
       THEN _write_pct(
                _write_pct(
                    _write_pct(writer, U8(224 + (utf \div 4096)), TRUE),
                    U8(128 + ((utf \div 64) % 64)), TRUE),
                U8(128 + (utf % 64)), TRUE)
       ELSE IF utf > 1114111 THEN writer
       ELSE _write_pct(
                _write_pct(
                    _write_pct(
                        _write_pct(writer, U8(240 + (utf \div 262144)), TRUE),
                        U8(128 + ((utf \div 4096) % 64)), TRUE),
                    U8(128 + ((utf \div 64) % 64)), TRUE),
                U8(128 + (utf % 64)), TRUE)

_write_utf8(writer, symbol) ==
    LET utf == symbol
    IN IF utf < 128 THEN _write_pct(writer, U8(utf), TRUE)
       ELSE IF utf < 2048
       THEN _write_pct(_write_pct(writer, U8(192 + (utf \div 64)), TRUE),
                       U8(128 + (utf % 64)), TRUE)
       ELSE IF 55296 <= utf /\ utf <= 57343 THEN writer
       ELSE IF utf < 65536
       THEN _write_pct(
                _write_pct(
                    _write_pct(writer, U8(224 + (utf \div 4096)), TRUE),
                    U8(128 + ((utf \div 64) % 64)), TRUE),
                U8(128 + (utf % 64)), TRUE)
       ELSE IF utf > 1114111 THEN writer
       ELSE _write_pct(
                _write_pct(
                    _write_pct(
                        _write_pct(writer, U8(240 + (utf \div 262144)), TRUE),
                        U8(128 + ((utf \div 4096) % 64)), TRUE),
                    U8(128 + ((utf \div 64) % 64)), TRUE),
                U8(128 + (utf % 64)), TRUE)

(* ------------------------------ _Quoter -------------------------------- *)

\* a value returned or an exception raised by a call
Returned(s) == [exc |-> "none", str |-> s]
Raised(e) == [exc |-> e, str |-> <<>>]

\* _Quoter.__init__ with no test of the protected characters
_Quoter__init__unchecked(safe, protected, qs) ==
    IF \E i \in 1..Len(safe) : safe[i] > 127 THEN Raised("ValueError")
    ELSE [exc |-> "none",
          qs |-> qs,
          safe_table |-> (IF ~qs THEN ALLOWED_NOTQS_TABLE ELSE ALLOWED_TABLE)
                             \cup Range(safe) \cup Range(protected),
          protected_table |-> Range(protected)]

\* _Quoter.__init__: the instance, or the exception it raises
_Quoter__init__(safe, protected, qs) ==
    IF \E i \in 1..Len(safe) : safe[i] > 127 THEN Raised("ValueError")
    ELSE IF \E i \in 1..Len(protected) : protected[i] > 127
    THEN Raised("ValueError")
    ELSE [exc |-> "none",
          qs |-> qs,
          safe_table |-> (IF ~qs THEN ALLOWED_NOTQS_TABLE ELSE ALLOWED_TABLE)
                             \cup Range(safe) \cup Range(protected),
          protected_table |-> Range(protected)]

_write_noqs(self, writer, ch) ==
    IF ch < 128 /\ bit_at(self.safe_table, ch)
    THEN _write_char(writer, ch, FALSE)
    ELSE _write_utf8(writer, ch)

_write(self, writer, ch) ==
    IF self.qs /\ ch = 32 THEN _write_char(writer, 43, TRUE)
    ELSE IF ch < 128 /\ bit_at(self.safe_table, ch)
    THEN _write_char(writer, ch, FALSE)
    ELSE _write_utf8(writer, ch)

\* the escape just read, when its two digits are hexadecimal
_do_quote_escape_unprotected(self, writer, ch, pct) ==
    IF ch < 128 /\ bit_at(self.safe_table, ch)
    THEN _write_char(writer, ch, TRUE)
    ELSE _write_pct_check(writer, ch, pct)

_do_quote_escape(self, writer, ch, pct) ==
    IF ch < 128 /\ bit_at(self.protected_table, ch)
    THEN _write_pct(writer, ch, TRUE)
    ELSE IF ch < 128 /\ bit_at(self.safe_table, ch)
    THEN _write_char(writer, ch, TRUE)
    ELSE _write_pct_check(writer, ch, pct)

\* the index is moved back by 1 (not 2) after a malformed three-character read
_do_quote_iter_short(self, val, st) ==
    LET ch == val[st.idx + 1]
        idx == st.idx + 1
    IN IF st.has_pct # 0
       THEN LET pct == [st.pct EXCEPT ![st.has_pct] = ch]
                has_pct == st.has_pct + 1
            IN IF has_pct = 3
               THEN IF _restore_ch(pct[1], pct[2]) = -1
                    THEN [st EXCEPT !.writer = _write_percent(st.writer),
                                    !.idx = idx - 1, !.has_pct = 0, !.pct = pct]
                    ELSE [st EXCEPT !.writer = _do_quote_escape(self, st.writer,
                                          _restore_ch(pct[1], pct[2]), pct),
                                    !.idx = idx, !.has_pct = 0, !.pct = pct]
               ELSE IF has_pct = 2 /\ idx = Len(val)
               THEN [st EXCEPT !.writer = _write_percent(st.writer),
                               !.idx = idx - 1, !.has_pct = 0, !.pct = pct]
               ELSE [st EXCEPT !.idx = idx, !.has_pct = has_pct, !.pct = pct]
       ELSE IF ch = 37
       THEN [st EXCEPT !.idx = idx, !.has_pct = 1,
                       !.writer = IF idx = Len(val)
                                  THEN _write_percent(st.writer)
                                  ELSE st.writer]
       ELSE [st EXCEPT !.idx = idx, !.writer = _write(self, st.writer, ch)]

\* one iteration of the while loop of _do_quote; st holds the locals
_do_quote_iter(self, val, st) ==
    LET ch == val[st.idx + 1]
        idx == st.idx + 1
    IN IF st.has_pct # 0
       THEN LET pct == [st.pct EXCEPT ![st.has_pct] = ch]
                has_pct == st.has_pct + 1
            IN IF has_pct = 3
               THEN IF _restore_ch(pct[1], pct[2]) = -1
                    THEN [st EXCEPT !.writer = _write_percent(st.writer),
                                    !.idx = idx - 2, !.has_pct = 0, !.pct = pct]
                    ELSE [st EXCEPT !.writer = _do_quote_escape(self, st.writer,
                                          _restore_ch(pct[1], pct[2]), pct),
                                    !.idx = idx, !.has_pct = 0, !.pct = pct]
               ELSE IF has_pct = 2 /\ idx = Len(val)
               THEN [st EXCEPT !.writer = _write_percent(st.writer),
                               !.idx = idx - 1, !.has_pct = 0, !.pct = pct]
               ELSE [st EXCEPT !.idx = idx, !.has_pct = has_pct, !.pct = pct]
       ELSE IF ch = 37
       THEN [st EXCEPT !.idx = idx, !.has_pct = 1,
                       !.writer = IF idx = Len(val)
                                  THEN _write_percent(st.writer)
                                  ELSE st.writer]
       ELSE [st EXCEPT !.idx = idx, !.writer = _write(self, st.writer, ch)]

\* the while loop of _do_quote: it ends at the end of val or when a write fails
RECURSIVE _do_quote_loop(_, _, _)
_do_quote_loop(self, val, st) ==
    IF st.idx < Len(val) /\ ~st.writer.err
    THEN _do_quote_loop(self, val, _do_quote_iter(self, val, st))
    ELSE st

_do_quote_locals(writer) ==
    [idx |-> 0, has_pct |-> 0, pct |-> <<0, 0>>, writer |-> writer]

PyUnicode_DecodeASCII(buf, pos) ==
    IF \E i \in 1..pos : buf[i] > 127 THEN Raised("UnicodeDecodeError")
    ELSE Returned(SubSeq(buf, 1, pos))

\* what _do_quote returns or raises once its loop is left with this writer
_do_quote_return(val, writer) ==
    IF writer.err THEN Raised("MemoryError")
    ELSE IF ~writer.changed THEN Returned(val)
    ELSE PyUnicode_DecodeASCII(writer.buf, writer.pos)

_do_quote(self, val, writer) ==
    IF Len(val) = 0 THEN Returned(val)
    ELSE _do_quote_return(
             val, _do_quote_loop(self, val, _do_quote_locals(writer)).writer)

\* _Quoter.__call__ on a str; the writer is released when _do_quote is left
_Quoter__call__(self, val, avail) == _do_quote(self, val, _init_writer(avail))

\* a Python value: its type, whether it is an instance of str, and its
\* characters (of a str or of an instance of a subclass of str) or bytes
PyValue(type, is_str, value) ==
    [type |-> type, is_str |-> is_str, value |-> value]

PyNone == PyValue("NoneType", FALSE, <<>>)

\* the call returned None
ReturnedNone == [exc |-> "none", str |-> <<>>, is_none |-> TRUE]

\* bytes are let through as instances of str are
_Quoter__call__value_bytes(self, val, avail) ==
    IF val = PyNone THEN ReturnedNone
    ELSE IF val.type # "str" /\ ~val.is_str /\ val.type # "bytes"
    THEN Raised("TypeError")
    ELSE _Quoter__call__(self, val.value, avail)

\* _Quoter.__call__ on any value
_Quoter__call__value(self, val, avail) ==
    IF val = PyNone THEN ReturnedNone
    ELSE IF val.type # "str" /\ ~val.is_str THEN Raised("TypeError")
    ELSE _Quoter__call__(self, val.value, avail)

(* ----------------------- _quote of _quoting.pyx ------------------------- *)

\* the new string _make_str returns: its first idx characters are those of val
_make_str(val, idx) == SubSeq(val, 1, idx)

\* the bytes _char_as_utf8 puts in buf
_char_as_utf8(ch) ==
    IF ch < 128 THEN <<U8(ch)>>
    ELSE IF ch < 2048 THEN <<U8(192 + (ch \div 64)), U8(128 + (ch % 64))>>
    ELSE IF 55296 <= ch /\ ch <= 57343 THEN <<>>
    ELSE IF ch < 65536
    THEN <<U8(224 + (ch \div 4096)), U8(128 + ((ch \div 64) % 64)),
           U8(128 + (ch % 64))>>
    ELSE IF ch > 1114111 THEN <<>>
    ELSE <<U8(240 + (ch \div 262144)), U8(128 + ((ch \div 4096) % 64)),
           U8(128 + ((ch \div 64) % 64)), U8(128 + (ch % 64))>>

\* one iteration of the while loop of _do_quote of _quoting.pyx; st holds the
\* locals: made tells that ret is not None, ret holds the characters of ret
\* that were copied or written
_quoting_do_quote_iter(safe_table, protected, qs, val, st) ==
    LET ch == val[st.idx + 1]
        idx == st.idx + 1
        \* if ret is None: ret = _make_str(val, val_len, idx)
        made == IF st.made THEN st
                ELSE [st EXCEPT !.made = TRUE, !.ret = _make_str(val, idx)]
        \* PyUnicode_WriteChar(ret, ret_idx, c); ret_idx += 1
        put(s, c) ==
            [s EXCEPT !.ret = IF s.ret_idx < Len(s.ret)
                              THEN [s.ret EXCEPT ![s.ret_idx + 1] = c]
                              ELSE Append(s.ret, c),
                      !.ret_idx = s.ret_idx + 1]
        put3(s, a, b, c) == put(put(put(s, a), b), c)
        RECURSIVE put_bytes(_, _)
        put_bytes(s, bytes) ==
            IF Len(bytes) = 0 THEN s
            ELSE put_bytes(put3(s, 37, _to_hex(Head(bytes) \div 16),
                                _to_hex(Head(bytes) % 16)),
                           Tail(bytes))
    IN IF st.has_pct # 0
       THEN LET pct == [st.pct EXCEPT ![st.has_pct] = ch]
                has_pct == st.has_pct + 1
                digit1 == _from_hex(pct[1])
                digit2 == _from_hex(pct[2])
                c == digit1 * 16 + digit2
                pct2 == <<_to_hex(U8(c) \div 16), _to_hex(U8(c) % 16)>>
            IN IF has_pct = 3
               THEN IF digit1 = -1 \/ digit2 = -1
                    THEN [put3(made, 37, 50, 53) EXCEPT
                             !.idx = idx - 2, !.has_pct = 0, !.pct = pct]
                    ELSE IF c \in Range(protected)
                    THEN [put3(made, 37, pct2[1], pct2[2]) EXCEPT
                             !.idx = idx, !.has_pct = 0, !.pct = pct]
                    ELSE IF c < 128 /\ c \in safe_table
                    THEN [put(made, c) EXCEPT
                             !.idx = idx, !.has_pct = 0, !.pct = pct]
                    ELSE IF ~st.made /\ pct = pct2
                    THEN [st EXCEPT !.idx = idx, !.has_pct = 0, !.pct = pct]
                    ELSE [put3(made, 37, pct2[1], pct2[2]) EXCEPT
                             !.idx = idx, !.has_pct = 0, !.pct = pct]
               ELSE IF has_pct = 2 /\ idx = Len(val)
               THEN [put3(made, 37, 50, 53) EXCEPT
                        !.idx = idx - 1, !.has_pct = 0, !.pct = pct]
               ELSE [st EXCEPT !.idx = idx, !.has_pct = has_pct, !.pct = pct]
       ELSE IF ch = 37
       THEN IF idx = Len(val)
            THEN [put3(made, 37, 50, 53) EXCEPT !.idx = idx, !.has_pct = 1]
            ELSE [st EXCEPT !.idx = idx, !.has_pct = 1]
       ELSE IF qs /\ ch = 32 THEN [put(made, 43) EXCEPT !.idx = idx]
       ELSE IF ch < 128 /\ ch \in safe_table
       THEN IF st.made THEN [put(st, ch) EXCEPT !.idx = idx]
            ELSE [st EXCEPT !.idx = idx, !.ret_idx = st.ret_idx + 1]
       ELSE [put_bytes(made, _char_as_utf8(ch)) EXCEPT !.idx = idx]

\* the while loop of _do_quote of _quoting.pyx
RECURSIVE _quoting_do_quote_loop(_, _, _, _, _)
_quoting_do_quote_loop(safe_table, protected, qs, val, st) ==
    IF st.idx < Len(val)
    THEN _quoting_do_quote_loop(
             safe_table, protected, qs, val,
             _quoting_do_quote_iter(safe_table, protected, qs, val, st))
    ELSE st

\* _quote on a str, and the _do_quote it calls
_quote(val, safe, protected, qs) ==
    IF Len(val) = 0 THEN Returned(val)
    ELSE IF \E i \in 1..Len(safe) : safe[i] > 127 THEN Raised("ValueError")
    ELSE IF \E i \in 1..Len(protected) : protected[i] > 127
    THEN Raised("ValueError")
    ELSE LET safe_table ==
                 (IF ~qs THEN ALLOWED_NOTQS_TABLE ELSE ALLOWED_TABLE)
                     \cup Range(safe) \cup Range(protected)
             st == _quoting_do_quote_loop(
                       safe_table, protected, qs, val,
                       [idx |-> 0, has_pct |-> 0, pct |-> <<0, 0>>,
                        made |-> FALSE, ret |-> <<>>, ret_idx |-> 0])
         IN IF ~st.made THEN Returned(val)
            ELSE Returned(SubSeq(st.ret, 1, st.ret_idx))

(* ----------------------------- _Unquoter ------------------------------- *)

\* str.isspace(): the characters int() strips from both ends of its argument
PyWhitespace ==
    (9..13) \cup (28..32) \cup {133, 160, 5760} \cup (8192..8202)
        \cup {8232, 8233, 8239, 8287, 12288}

\* the value of a character int(..., base=16) takes for a digit, or -1; beside
\* the ASCII hexadecimal digits, int() reads the decimal digits of other
\* scripts (of which the Arabic-Indic and the fullwidth ones are listed)
PyDigit16(c) ==
    IF _from_hex(c) >= 0 THEN _from_hex(c)
    ELSE IF 1632 <= c /\ c <= 1641 THEN c - 1632
    ELSE IF 65296 <= c /\ c <= 65305 THEN c - 65296
    ELSE -1

\* int(s, base=16) for the two characters after a '%': white space around
\* the number is dropped and one sign is read
PyInt16(c1, c2) ==
    LET s1 == c1 \in PyWhitespace
        s2 == c2 \in PyWhitespace
    IN IF s1 /\ s2 THEN Raised("ValueError")
       ELSE IF s1
       THEN IF PyDigit16(c2) >= 0
            THEN [exc |-> "none", value |-> PyDigit16(c2)]
            ELSE Raised("ValueError")
       ELSE IF s2
       THEN IF PyDigit16(c1) >= 0
            THEN [exc |-> "none", value |-> PyDigit16(c1)]
            ELSE Raised("ValueError")
       ELSE IF PyDigit16(c2) < 0 THEN Raised("ValueError")
       ELSE IF c1 = 43 THEN [exc |-> "none", value |-> PyDigit16(c2)]
       ELSE IF c1 = 45 THEN [exc |-> "none", value |-> 0 - PyDigit16(c2)]
       ELSE IF PyDigit16(c1) < 0 THEN Raised("ValueError")
       ELSE [exc |-> "none", value |-> PyDigit16(c1) * 16 + PyDigit16(c2)]

IsCont(b) == 128 <= b /\ b <= 191

\* the length of the UTF-8 sequence that starts bytes, 0 when bytes does not
\* start with a well-formed sequence (overlong forms, surrogates and values
\* above U+10FFFF are not well-formed)
Utf8SeqLen(bytes) ==
    LET n == Len(bytes)
        b1 == bytes[1]
    IN IF n = 0 THEN 0
       ELSE IF b1 < 128 THEN 1
       ELSE IF 194 <= b1 /\ b1 <= 223
       THEN IF n >= 2 /\ IsCont(bytes[2]) THEN 2 ELSE 0
       ELSE IF 224 <= b1 /\ b1 <= 239
       THEN IF n >= 3 /\ IsCont(bytes[2]) /\ IsCont(bytes[3])
               /\ (b1 = 224 => bytes[2] >= 160)
               /\ (b1 = 237 => bytes[2] <= 159)
            THEN 3 ELSE 0
       ELSE IF 240 <= b1 /\ b1 <= 244
       THEN IF n >= 4 /\ IsCont(bytes[2]) /\ IsCont(bytes[3]) /\ IsCont(bytes[4])
               /\ (b1 = 240 => bytes[2] >= 144)
               /\ (b1 = 244 => bytes[2] <= 143)
            THEN 4 ELSE 0
       ELSE 0

Utf8CodePoint(bytes, n) ==
    IF n = 1 THEN bytes[1]
    ELSE IF n = 2 THEN (bytes[1] % 32) * 64 + (bytes[2] % 64)
    ELSE IF n = 3
    THEN (bytes[1] % 16) * 4096 + (bytes[2] % 64) * 64 + (bytes[3] % 64)
    ELSE (bytes[1] % 8) * 262144 + (bytes[2] % 64) * 4096
             + (bytes[3] % 64) * 64 + (bytes[4] % 64)

\* bytes.decode('utf8'): the string, or UnicodeDecodeError
RECURSIVE Utf8Decode(_)
Utf8Decode(bytes) ==
    IF Len(bytes) = 0 THEN Returned(<<>>)
    ELSE LET n == Utf8SeqLen(bytes)
         IN IF n = 0 THEN Raised("UnicodeDecodeError")
            ELSE LET rest == Utf8Decode(SubSeq(bytes, n + 1, Len(bytes)))
                 IN IF rest.exc # "none" THEN rest
                    ELSE Returned(<<Utf8CodePoint(bytes, n)>> \o rest.str)

\* x in s, for strings
IsSubstring(x, s) ==
    \E i \in 0..(Len(s) - Len(x)) : SubSeq(s, i + 1, i + Len(x)) = x

\* hex(n).upper()[2:]
RECURSIVE HexUpper(_)
HexUpper(n) ==
    IF n < 16 THEN <<_to_hex(n)>>
    ELSE Append(HexUpper(n \div 16), _to_hex(n % 16))

\* _Unquoter.__init__: the two quoters are built with the default arguments
_Unquoter__init__(unsafe, qs) ==
    [unsafe |-> unsafe, qs |-> qs,
     _quoter |-> _Quoter__init__(<<>>, <<>>, FALSE),
     _qs_quoter |-> _Quoter__init__(<<>>, <<>>, TRUE)]

\* unquoted is requoted by self._qs_quoter
_do_unquote_is_qs(self, unquoted) ==
    self.qs /\ IsSubstring(unquoted, <<43, 61, 38, 59>>)

\* the text appended for a run of escapes that decoded to unquoted: it is
\* requoted by self._qs_quoter, else by self._quoter, else appended as it is
_do_unquote_decoded(self, unquoted) ==
    IF _do_unquote_is_qs(self, unquoted) \/ IsSubstring(unquoted, self.unsafe)
    THEN _Quoter__call__(IF _do_unquote_is_qs(self, unquoted)
                         THEN self._qs_quoter ELSE self._quoter,
                         unquoted, MaxAllocs).str
    ELSE unquoted

\* the locals after the try statement that decodes the bytes collected so
\* far; unquoted is what pcts.decode('utf8') returned or raised
_do_unquote_try(self, st, unquoted) ==
    IF unquoted.exc # "none" THEN st
    ELSE [st EXCEPT !.ret = @ \o _do_unquote_decoded(self, unquoted.str),
                    !.pcts = <<>>]

\* the attempt to decode the bytes collected so far, made before a character
\* outside an escape is looked at
_do_unquote_flush(self, st) ==
    IF Len(st.pcts) = 0 THEN st
    ELSE _do_unquote_try(self, st, Utf8Decode(st.pcts))

\* '+' becomes a space whenever qs is set, the unsafe string not being looked at
_do_unquote_char_qs(self, st, ch) ==
    IF ch = 43
    THEN IF ~self.qs
         THEN [st EXCEPT !.ret = Append(@, 43)]
         ELSE [st EXCEPT !.ret = Append(@, 32)]
    ELSE IF ch \in Range(self.unsafe)
    THEN [st EXCEPT !.ret = (@ \o <<37>>) \o HexUpper(ch)]
    ELSE [st EXCEPT !.ret = Append(@, ch)]

\* a character outside an escape, other than '%'; st holds the locals after
\* the attempt to decode
_do_unquote_char(self, st, ch) ==
    IF ch = 43
    THEN IF ~self.qs \/ ch \in Range(self.unsafe)
         THEN [st EXCEPT !.ret = Append(@, 43)]
         ELSE [st EXCEPT !.ret = Append(@, 32)]
    ELSE IF ch \in Range(self.unsafe)
    THEN [st EXCEPT !.ret = (@ \o <<37>>) \o HexUpper(ch)]
    ELSE [st EXCEPT !.ret = Append(@, ch)]

\* the last escape of a run that did not decode is appended
_do_unquote_last_pct(st) ==
    IF Len(st.pcts) > 0
    THEN [st EXCEPT !.ret = @ \o st.last_pct, !.last_pct = <<>>]
    ELSE st

\* a character read while no escape is open; st holds the locals after the
\* attempt to decode
_do_unquote_plain(self, st, ch) ==
    IF ch = 37 THEN [st EXCEPT !.pct = <<ch>>]
    ELSE _do_unquote_char(self, _do_unquote_last_pct(st), ch)

\* one iteration of the for loop of _do_unquote; st holds the locals
_do_unquote_iter(self, st, ch) ==
    IF Len(st.pct) > 0
    THEN LET pct == Append(st.pct, ch)
         IN IF Len(pct) = 3
            THEN LET b == PyInt16(pct[2], pct[3])
                 IN IF b.exc # "none" THEN [st EXCEPT !.exc = b.exc]
                    ELSE IF b.value < 0 \/ b.value > 255
                    THEN [st EXCEPT !.exc = "ValueError"]
                    ELSE [st EXCEPT !.pcts = Append(@, b.value),
                                    !.last_pct = pct,
                                    !.pct = <<>>]
            ELSE [st EXCEPT !.pct = pct]
    ELSE _do_unquote_plain(self, _do_unquote_flush(self, st), ch)

RECURSIVE _do_unquote_loop(_, _, _, _)
_do_unquote_loop(self, val, i, st) ==
    IF i <= Len(val) /\ st.exc = "none"
    THEN _do_unquote_loop(self, val, i + 1, _do_unquote_iter(self, st, val[i]))
    ELSE st

_do_unquote_locals ==
    [pct |-> <<>>, last_pct |-> <<>>, pcts |-> <<>>, ret |-> <<>>,
     exc |-> "none"]

\* the bytes still collected when the loop is left are dropped
_do_unquote_tail_dropped(self, st, unquoted) == st.ret

\* the list after the try statement that follows the loop; unquoted is what
\* pcts.decode('utf8') returned or raised
_do_unquote_tail(self, st, unquoted) ==
    IF unquoted.exc # "none" THEN st.ret \o st.last_pct
    ELSE st.ret \o _do_unquote_decoded(self, unquoted.str)

\* what _do_unquote returns or raises once its loop is left with locals st
_do_unquote_return(self, st) ==
    IF st.exc # "none" THEN Raised(st.exc)
    ELSE IF Len(st.pcts) = 0 THEN Returned(st.ret)
    ELSE Returned(_do_unquote_tail(self, st, Utf8Decode(st.pcts)))

_do_unquote(self, val) ==
    IF Len(val) = 0 THEN Returned(val)
    ELSE _do_unquote_return(
             self, _do_unquote_loop(self, val, 1, _do_unquote_locals))

\* _Unquoter.__call__ on a str
_Unquoter__call__(self, val) == _do_unquote(self, val)

(* --------------------------- the state machine ------------------------- *)

VARIABLES
    quoter,     \* the _Quoter instance
    unquoter,   \* the _Unquoter instance
    orig,       \* the string the caller passed to the first call
    arg,        \* the argument of the last call
    ret,        \* what the last call returned or raised
    pc,         \* "start", or which calls have been made
    urls,       \* the URL objects that exist, by id
    BUFFER,     \* the characters of the static buffer
    calls       \* the call each thread is making, by thread

vars == <<quoter, unquoter, orig, arg, ret, pc, urls, BUFFER, calls>>

\* '%', '2', 'F', 'f', 'z', ' ', '+' and the surrogate U+D800
Alphabet == {37, 50, 70, 102, 122, 32, 43, 55296}

\* every ASCII character, and the code points around the limits of the
\* UTF-8 forms and of the surrogate range
Singles ==
    (0..127) \cup {128, 233, 2047, 2048, 8364, 55295, 55296, 57343, 57344,
                   65535, 65536, 128512, 1114111}

\* "a%2zb", "%25", "%2F ", "%2f%", "%25%2ff", and U+00E9 with U+20AC after it
Examples ==
    {<<97, 37, 50, 122, 98>>, <<37, 50, 53>>, <<37, 50, 70, 32>>,
     <<37, 50, 102, 37>>, <<37, 50, 53, 37, 50, 102, 102>>, <<233, 8364>>}

Inputs ==
    UNION {[1..n -> Alphabet] : n \in 0..MaxLen}
        \cup {<<c>> : c \in Singles} \cup Examples

\* the allocator fails at once, or grants what a call needs
Allocs == {0, MaxAllocs}

\* the caller-supplied safe and protected strings: "", "/", "+", "%", " "
SafeArgs == {<<>>, <<47>>, <<43>>, <<37>>, <<32>>}
ProtectedArgs == {<<>>, <<47>>, <<37>>}

Quoters ==
    {_Quoter__init__(s, p, q) : s \in SafeArgs, p \in ProtectedArgs,
                                q \in BOOLEAN}

DefaultUnquoter == _Unquoter__init__(<<>>, FALSE)

Init ==
    /\ quoter \in Quoters
    /\ unquoter = DefaultUnquoter
    /\ orig = <<>>
    /\ arg = <<>>
    /\ ret = Returned(<<>>)
    /\ pc = "start"
    /\ urls = <<>>
    /\ BUFFER = <<>>
    /\ calls = <<>>

\* quoter(val), the first call
QuoterCall ==
    /\ pc = "start"
    /\ quoter.exc = "none"
    /\ \E val \in Inputs, avail \in Allocs :
        /\ orig' = val
        /\ arg' = val
        /\ ret' = _Quoter__call__(quoter, val, avail)
    /\ pc' = "quoted"
    /\ UNCHANGED <<quoter, unquoter, urls, BUFFER, calls>>

\* quoter(quoter(val)): the same quoter is called with what it returned
QuoterCallAgain ==
    /\ pc = "quoted"
    /\ ret.exc = "none"
    /\ \E avail \in Allocs :
        /\ arg' = ret.str
        /\ ret' = _Quoter__call__(quoter, ret.str, avail)
    /\ pc' = "requoted"
    /\ UNCHANGED <<quoter, unquoter, orig, urls, BUFFER, calls>>

Next == QuoterCall \/ QuoterCallAgain

Spec == Init /\ [][Next]_vars

\* no _Quoter instance is bound yet
NoInstance == [exc |-> "unbound"]

\* safe strings with DEL, with U+0080 and with a euro sign after a '/'
ConfigSafeArgs == SafeArgs \cup {<<127>>, <<128>>, <<47, 8364>>}
\* protected strings with U+0080 and with U+00E9 after a '/'
ConfigProtectedArgs == ProtectedArgs \cup {<<128>>, <<47, 233>>}

InitConfig ==
    /\ quoter = NoInstance
    /\ unquoter = DefaultUnquoter
    /\ orig = <<>>
    /\ arg = <<>>
    /\ ret = Returned(<<>>)
    /\ pc = "new"
    /\ urls = <<>>
    /\ BUFFER = <<>>
    /\ calls = <<>>

\* _Quoter(safe=..., protected=..., qs=...): arg keeps the arguments, quoter
\* the instance or the exception raised
QuoterNew ==
    /\ pc = "new"
    /\ \E safe \in ConfigSafeArgs, protected \in ConfigProtectedArgs,
          qs \in BOOLEAN :
        /\ arg' = [safe |-> safe, protected |-> protected, qs |-> qs]
        /\ quoter' = _Quoter__init__(safe, protected, qs)
    /\ pc' = "start"
    /\ UNCHANGED <<unquoter, orig, ret, urls, BUFFER, calls>>

NextConfig == QuoterNew \/ QuoterCall

SpecConfig == InitConfig /\ [][NextConfig]_vars

\* strings, instances of a subclass of str, None, and values of other types
PyValues ==
    {PyValue("str", TRUE, v) : v \in Inputs}
        \cup {PyValue("MyStr", TRUE, v) : v \in Examples}
        \cup {PyNone}
        \cup {PyValue(t, FALSE, <<>>) : t \in {"int", "bool", "float", "list"}}
        \cup {PyValue("bytes", FALSE, v) : v \in {<<>>, <<97>>, <<37, 50, 102>>}}

\* quoter(val) for a value of any type
QuoterCallValue ==
    /\ pc = "start"
    /\ quoter.exc = "none"
    /\ \E val \in PyValues, avail \in Allocs :
        /\ arg' = val
        /\ ret' = _Quoter__call__value(quoter, val, avail)
    /\ pc' = "called"
    /\ UNCHANGED <<quoter, unquoter, orig, urls, BUFFER, calls>>

NextValue == QuoterCallValue

SpecValue == Init /\ [][NextValue]_vars

\* '%', 'a', 'z', '+', ' ' and '/'
UAlphabet == {37, 97, 122, 43, 32, 47}

\* "%ff", "%C3", "%A9", "%41", "%25", "%2B", "%2f", "%3d" and "%61"
UEscapes ==
    {<<37, 102, 102>>, <<37, 67, 51>>, <<37, 65, 57>>, <<37, 52, 49>>,
     <<37, 50, 53>>, <<37, 50, 66>>, <<37, 50, 102>>, <<37, 51, 100>>,
     <<37, 54, 49>>}

Tokens == {<<c>> : c \in UAlphabet} \cup UEscapes

RECURSIVE Concat(_)
Concat(ss) == IF Len(ss) = 0 THEN <<>> ELSE Head(ss) \o Concat(Tail(ss))

\* "%e2%82%f8", "%e2%82%f8z", "%-1" and "% 4"
UExamples ==
    {<<37, 101, 50, 37, 56, 50, 37, 102, 56>>,
     <<37, 101, 50, 37, 56, 50, 37, 102, 56, 122>>,
     <<37, 45, 49>>, <<37, 32, 52>>}

UInputs ==
    {Concat(ts) : ts \in UNION {[1..n -> Tokens] : n \in 0..MaxTokens}}
        \cup UExamples

\* the unsafe strings "", "/", "+" and "=a"
UnsafeArgs == {<<>>, <<47>>, <<43>>, <<61, 97>>}

Unquoters == {_Unquoter__init__(u, q) : u \in UnsafeArgs, q \in BOOLEAN}

InitUnquote ==
    /\ quoter = _Quoter__init__(<<>>, <<>>, FALSE)
    /\ unquoter \in Unquoters
    /\ orig = <<>>
    /\ arg = <<>>
    /\ ret = Returned(<<>>)
    /\ pc = "start"
    /\ urls = <<>>
    /\ BUFFER = <<>>
    /\ calls = <<>>

\* unquoter(val), the first call
UnquoterCall ==
    /\ pc = "start"
    /\ \E val \in UInputs :
        /\ orig' = val
        /\ arg' = val
        /\ ret' = _Unquoter__call__(unquoter, val)
    /\ pc' = "unquoted"
    /\ UNCHANGED <<quoter, unquoter, urls, BUFFER, calls>>

\* quoter(unquoter(val))
QuoterCallUnquoted ==
    /\ pc = "unquoted"
    /\ ret.exc = "none"
    /\ \E avail \in Allocs :
        /\ arg' = ret.str
        /\ ret' = _Quoter__call__(quoter, ret.str, avail)
    /\ pc' = "unquoted_quoted"
    /\ UNCHANGED <<quoter, unquoter, orig, urls, BUFFER, calls>>

NextUnquote == UnquoterCall \/ QuoterCallUnquoted

SpecUnquote == InitUnquote /\ [][NextUnquote]_vars

(* ------------------- calls made by several threads --------------------- *)

\* the writer with the characters its buf points at: those of the static
\* BUFFER, until the first growth has copied them to the heap
_writer_buf(static, writer) ==
    IF writer.heap THEN writer
    ELSE [writer EXCEPT !.buf = SubSeq(static, 1, writer.pos)]

\* the static BUFFER once a writer has gone from before to after: what it
\* wrote while its buf was the static BUFFER was stored there
_stored(static, before, after) ==
    [i \in 1..BUF_SIZE |->
        IF ~before.heap /\ before.pos < i /\ i <= after.pos
        THEN after.buf[i] ELSE static[i]]

\* the frame of a thread that is not in a call
Idle ==
    [pc |-> "idle", val |-> <<>>, avail |-> 0,
     st |-> _do_quote_locals(_init_writer(0)),
     ret |-> Returned(<<>>), freed |-> FALSE]

InitThreads ==
    /\ quoter \in {_Quoter__init__(<<>>, <<>>, FALSE),
                   _Quoter__init__(<<>>, <<47>>, TRUE)}
    /\ unquoter = DefaultUnquoter
    /\ orig = <<>>
    /\ arg = <<>>
    /\ ret = Returned(<<>>)
    /\ pc = "threads"
    /\ urls = <<>>
    /\ BUFFER = [i \in 1..BUF_SIZE |-> 0]
    /\ calls = [t \in 1..MaxThreads |-> Idle]

\* quoter(val) is entered by thread t: _init_writer. val is one of " ", '"',
\* "a", "   ", "%zz", "a%z", "%2f" and six spaces, whose 18 output characters
\* make the buffer grow twice; the allocator fails at the first growth, at
\* the second one, or never
ThreadCall(t) ==
    /\ calls[t].pc = "idle"
    /\ \E val \in {<<32>>, <<34>>, <<97>>, <<32, 32, 32>>, <<37, 122, 122>>,
                   <<97, 37, 122>>, <<37, 50, 102>>,
                   <<32, 32, 32, 32, 32, 32>>},
          avail \in {0, 1, MaxAllocs} :
        calls' = [calls EXCEPT ![t] =
                     [Idle EXCEPT !.pc = "loop", !.val = val, !.avail = avail,
                                  !.st = _do_quote_locals(_init_writer(avail))]]
    /\ UNCHANGED <<quoter, unquoter, orig, arg, ret, pc, urls, BUFFER>>

\* one iteration of the loop of _do_quote in thread t
ThreadStep(t) ==
    /\ calls[t].pc = "loop"
    /\ calls[t].st.idx < Len(calls[t].val)
    /\ ~calls[t].st.writer.err
    /\ LET call == calls[t]
           st == [call.st EXCEPT
                     !.writer = _writer_buf(BUFFER, call.st.writer)]
           next == _do_quote_iter(quoter, call.val, st)
       IN  /\ calls' = [calls EXCEPT ![t].st = next]
           /\ BUFFER' = _stored(BUFFER, call.st.writer, next.writer)
    /\ UNCHANGED <<quoter, unquoter, orig, arg, ret, pc, urls>>

\* the loop is left in thread t: _do_quote returns or raises
ThreadReturn(t) ==
    LET call == calls[t]
    IN  /\ call.pc = "loop"
        /\ ~(call.st.idx < Len(call.val) /\ ~call.st.writer.err)
        /\ calls' = [calls EXCEPT
                        ![t].pc = "finally",
                        ![t].ret = _do_quote_return(
                            call.val, _writer_buf(BUFFER, call.st.writer))]
        /\ UNCHANGED <<quoter, unquoter, orig, arg, ret, pc, urls, BUFFER>>

\* the finally clause of __call__ in thread t: _release_writer frees buf when
\* it is not the static BUFFER
ThreadRelease(t) ==
    /\ calls[t].pc = "finally"
    /\ calls' = [calls EXCEPT ![t].pc = "done",
                              ![t].freed = calls[t].st.writer.heap]
    /\ UNCHANGED <<quoter, unquoter, orig, arg, ret, pc, urls, BUFFER>>

NextThreads ==
    \E t \in 1..MaxThreads :
        ThreadCall(t) \/ ThreadStep(t) \/ ThreadReturn(t) \/ ThreadRelease(t)

SpecThreads == InitThreads /\ [][NextThreads]_vars

\* a thread that is in a call is run again and again until the call is left;
\* for ThreadStep the weak fairness condition WF_vars(ThreadStep(t)) is
\* written out, with the condition of the while loop for ENABLED ThreadStep(t)
SpecThreadsFair ==
    /\ SpecThreads
    /\ \A t \in 1..MaxThreads :
           /\ WF_vars(ThreadReturn(t))
           /\ WF_vars(ThreadRelease(t))
           /\ \/ []<>(~(/\ calls[t].pc = "loop"
                        /\ calls[t].st.idx < Len(calls[t].val)
                        /\ ~calls[t].st.writer.err))
              \/ []<><<ThreadStep(t)>>_vars

(* ------------------------------ URL values ----------------------------- *)

\* None for a component that is a string or missing: no code point is
\* negative
None == <<-1>>

\* None for the port
NoPort == -1

RECURSIVE find(_, _, _)
\* the least index of s from i on that holds ch, 0 when there is none
find(s, ch, i) ==
    IF i > Len(s) THEN 0
    ELSE IF s[i] = ch THEN i
    ELSE find(s, ch, i + 1)

RECURSIVE rfind(_, _, _)
\* the greatest index of s up to i that holds ch, 0 when there is none
rfind(s, ch, i) ==
    IF i < 1 THEN 0
    ELSE IF s[i] = ch THEN i
    ELSE rfind(s, ch, i - 1)

\* s[i..j] as Python slices it: empty when i > j
Slice(s, i, j) == IF i > j THEN <<>> ELSE SubSeq(s, i, j)

\* ASCII letters to lower case
lower(s) == [i \in 1..Len(s) |-> IF s[i] \in 65..90 THEN s[i] + 32 ELSE s[i]]

RECURSIVE split(_, _)
\* the pieces of s between the occurrences of ch
split(s, ch) ==
    LET i == find(s, ch, 1)
    IN  IF i = 0 THEN <<s>>
        ELSE <<Slice(s, 1, i - 1)>> \o split(Slice(s, i + 1, Len(s)), ch)

RECURSIVE join_with(_, _)
\* the pieces joined with ch between them
join_with(ss, ch) ==
    IF Len(ss) = 0 THEN <<>>
    ELSE IF Len(ss) = 1 THEN ss[1]
    ELSE ss[1] \o <<ch>> \o join_with(Tail(ss), ch)

\* the registry of default ports: http and ws 80, https and wss 443
DEFAULT_PORTS(scheme) ==
    IF scheme \in {<<104, 116, 116, 112>>, <<119, 115>>} THEN 80
    ELSE IF scheme \in {<<104, 116, 116, 112, 115>>, <<119, 115, 115>>}
    THEN 443
    ELSE NoPort

\* the quoter profile of each component: it leaves the delimiters that the
\* component may hold as they are
QUOTER == _Quoter__init__(<<>>, <<>>, FALSE)
\* safe "@:", protected "/+"
PATH_QUOTER == _Quoter__init__(<<64, 58>>, <<47, 43>>, FALSE)
\* safe "?/:@", protected "=+&;", qs
QUERY_QUOTER == _Quoter__init__(<<63, 47, 58, 64>>, <<61, 43, 38, 59>>, TRUE)
\* safe "?/:@", qs
QUERY_PART_QUOTER == _Quoter__init__(<<63, 47, 58, 64>>, <<>>, TRUE)
\* safe "?/:@"
FRAGMENT_QUOTER == _Quoter__init__(<<63, 47, 58, 64>>, <<>>, FALSE)
\* the unquoter of query keys and values: '+' is a space
QS_UNQUOTER == _Unquoter__init__(<<>>, TRUE)

\* quoter(val) with an allocator that grants what the call needs
quote(self, val) == _Quoter__call__(self, val, MaxAllocs).str

\* a component that may be missing, quoted when it is there
quote_opt(self, val) == IF val = None THEN None ELSE quote(self, val)

\* the five parts of a URL string: the fragment after the first '#', the
\* query after the first '?' before it, the scheme
\* (ALPHA *( ALPHA / DIGIT / "+" / "-" / "." ) ":"), the authority after
\* "//" up to the next '/', and the path
split_url(url) ==
    LET h == find(url, 35, 1)
        r1 == IF h = 0 THEN url ELSE Slice(url, 1, h - 1)
        q == find(r1, 63, 1)
        r2 == IF q = 0 THEN r1 ELSE Slice(r1, 1, q - 1)
        colon == find(r2, 58, 1)
        alpha == (65..90) \cup (97..122)
        c == IF /\ colon > 1
                /\ r2[1] \in alpha
                /\ \A i \in 2..(colon - 1) :
                     r2[i] \in alpha \cup (48..57) \cup {43, 45, 46}
             THEN colon
             ELSE 0
        r3 == Slice(r2, c + 1, Len(r2))
        auth == Len(r3) >= 2 /\ r3[1] = 47 /\ r3[2] = 47
        s == IF auth THEN find(r3, 47, 3) ELSE 0
    IN  [scheme |-> Slice(r2, 1, c - 1),
         netloc |-> IF ~auth THEN <<>>
                    ELSE IF s = 0 THEN Slice(r3, 3, Len(r3))
                    ELSE Slice(r3, 3, s - 1),
         path |-> IF ~auth THEN r3
                  ELSE IF s = 0 THEN <<>>
                  ELSE Slice(r3, s, Len(r3)),
         query |-> IF q = 0 THEN <<>> ELSE Slice(r1, q + 1, Len(r1)),
         fragment |-> IF h = 0 THEN <<>> ELSE Slice(url, h + 1, Len(url))]

\* the authority split at its rightmost '@' into the user information and
\* the host with its port, the user information at its first ':' and the
\* host with its port at its rightmost ':' outside brackets; no colon and a
\* colon with nothing after it both give no port, and an empty user is no
\* user; a port that is not written in decimal digits is -2
split_netloc(netloc) ==
    LET RECURSIVE parse_int(_, _)
        parse_int(str, acc) ==
            IF Len(str) = 0 THEN acc
            ELSE IF Head(str) \notin 48..57 THEN -2
            ELSE parse_int(Tail(str), 10 * acc + (Head(str) - 48))
        at == rfind(netloc, 64, Len(netloc))
        userinfo == Slice(netloc, 1, at - 1)
        hostport == Slice(netloc, at + 1, Len(netloc))
        c == find(userinfo, 58, 1)
        b == rfind(hostport, 93, Len(hostport))
        p == rfind(hostport, 58, Len(hostport))
        colon == IF p > b THEN p ELSE 0
        host == IF colon = 0 THEN hostport ELSE Slice(hostport, 1, colon - 1)
        portstr == IF colon = 0 THEN <<>>
                   ELSE Slice(hostport, colon + 1, Len(hostport))
        name == IF c = 0 THEN userinfo ELSE Slice(userinfo, 1, c - 1)
    IN  [user |-> IF at = 0 \/ Len(name) = 0 THEN None ELSE name,
         password |-> IF at = 0 \/ c = 0 THEN None
                      ELSE Slice(userinfo, c + 1, Len(userinfo)),
         host |-> IF Len(host) = 0 THEN None ELSE host,
         port |-> IF Len(portstr) = 0 THEN NoPort ELSE parse_int(portstr, 0)]

\* remove_dot_segments of RFC 3986 section 5.2.4: the segments of the path
\* with "." dropped and ".." taking the segment before it, if there is one;
\* a path that ends in "." or ".." ends in '/'
normalize_path(path) ==
    LET segments == IF Len(path) > 0 /\ path[1] = 47
                    THEN split(Tail(path), 47)
                    ELSE split(path, 47)
        RECURSIVE resolve(_, _)
        resolve(i, acc) ==
            IF i > Len(segments) THEN acc
            ELSE IF segments[i] = <<46, 46>>
            THEN resolve(i + 1, Slice(acc, 1, Len(acc) - 1))
            ELSE IF segments[i] = <<46>> THEN resolve(i + 1, acc)
            ELSE resolve(i + 1, Append(acc, segments[i]))
        resolved == IF /\ Len(segments) > 0
                       /\ segments[Len(segments)] \in {<<46>>, <<46, 46>>}
                    THEN Append(resolve(1, <<>>), <<>>)
                    ELSE resolve(1, <<>>)
    IN  IF 46 \notin Range(path) THEN path
        ELSE IF Len(path) > 0 /\ path[1] = 47
        THEN <<47>> \o join_with(resolved, 47)
        ELSE join_with(resolved, 47)

\* what a constructor, the builder or a derivation gives: a URL or an error
Built(url) == [exc |-> "none", url |-> url]
Rejected(e) == [exc |-> e, url |-> None]

from_parts_lax(scheme, user, password, host, port, path, query, fragment) ==
    IF port # NoPort /\ port \notin 0..65535
    THEN Rejected("ValueError")
    ELSE IF host # None /\ Len(path) > 0 /\ path[1] # 47
    THEN Rejected("ValueError")
    ELSE Built([scheme |-> scheme, user |-> user, password |-> password,
                host |-> host, port |-> port, path |-> path,
                query |-> query, fragment |-> fragment])

\* the routine that the constructor, the builder and the derivations share:
\* it takes the components, already encoded, and rejects user, password or
\* port without a host, a port outside 0..65535 and, with a host, a path
\* that does not start with '/'
from_parts(scheme, user, password, host, port, path, query, fragment) ==
    IF host = None /\ (user # None \/ password # None \/ port # NoPort)
    THEN Rejected("ValueError")
    ELSE IF port # NoPort /\ port \notin 0..65535
    THEN Rejected("ValueError")
    ELSE IF host # None /\ Len(path) > 0 /\ path[1] # 47
    THEN Rejected("ValueError")
    ELSE Built([scheme |-> scheme, user |-> user, password |-> password,
                host |-> host, port |-> port, path |-> path,
                query |-> query, fragment |-> fragment])

\* URL(val): the string is split, every piece goes through the quoter of
\* its component, scheme and host are put in lower case and, with a host,
\* the path is normalized
URL__new__(val) ==
    LET sp == split_url(val)
        nl == split_netloc(sp.netloc)
        path == quote(PATH_QUOTER, sp.path)
    IN  from_parts(lower(sp.scheme), quote_opt(QUOTER, nl.user),
                   quote_opt(QUOTER, nl.password),
                   IF nl.host = None THEN None ELSE lower(nl.host),
                   nl.port,
                   IF nl.host = None THEN path ELSE normalize_path(path),
                   quote(QUERY_QUOTER, sp.query),
                   quote(FRAGMENT_QUOTER, sp.fragment))

\* url.explicit_port: the port of the URL without the scheme's default
URL_explicit_port(url) == url.port

\* url.port: the port of the URL, or else the default port of its scheme;
\* None for a relative URL
URL_port(url) ==
    IF url.host = None THEN NoPort
    ELSE IF url.port # NoPort THEN url.port
    ELSE DEFAULT_PORTS(url.scheme)

\* url.raw_path: '/' for an absolute URL without a path
URL_raw_path(url) ==
    IF Len(url.path) = 0 /\ url.host # None THEN <<47>> ELSE url.path

\* the authority in the string form: [user[:password]@]host[:port], the
\* port left out when it is the default port of the scheme
netloc_str(url) ==
    LET RECURSIVE digits_of(_)
        digits_of(n) ==
            IF n < 10 THEN <<48 + n>>
            ELSE Append(digits_of(n \div 10), 48 + (n % 10))
    IN
    (IF url.user = None /\ url.password = None THEN <<>>
     ELSE (IF url.user = None THEN <<>> ELSE url.user)
            \o (IF url.password = None THEN <<>> ELSE <<58>> \o url.password)
            \o <<64>>)
        \o url.host
        \o (IF url.port = NoPort \/ url.port = DEFAULT_PORTS(url.scheme)
            THEN <<>>
            ELSE <<58>> \o digits_of(url.port))

\* str(url): the recomposition of RFC 3986 section 5.3, with '/' for the
\* missing path of a URL that has a host and a query or a fragment
URL__str__(url) ==
    (IF Len(url.scheme) = 0 THEN <<>> ELSE url.scheme \o <<58>>)
        \o (IF url.host = None THEN <<>> ELSE <<47, 47>> \o netloc_str(url))
        \o (IF /\ Len(url.path) = 0
               /\ url.host # None
               /\ (Len(url.query) > 0 \/ Len(url.fragment) > 0)
            THEN <<47>>
            ELSE url.path)
        \o (IF Len(url.query) = 0 THEN <<>> ELSE <<63>> \o url.query)
        \o (IF Len(url.fragment) = 0 THEN <<>> ELSE <<35>> \o url.fragment)

\* a == b: equality over the encoded form of the components, the missing
\* path of an absolute URL being '/'
URL__eq__(a, b) ==
    /\ a.scheme = b.scheme
    /\ a.user = b.user
    /\ a.password = b.password
    /\ a.host = b.host
    /\ a.port = b.port
    /\ URL_raw_path(a) = URL_raw_path(b)
    /\ a.query = b.query
    /\ a.fragment = b.fragment

(* ----------------------------- the query ------------------------------- *)

\* one token of a query string as a (key, value) pair: it splits at the
\* first '=', a token without '=' has the empty value, and key and value
\* are decoded
query_pair(token) ==
    LET e == find(token, 61, 1)
    IN  IF e = 0 THEN <<_Unquoter__call__(QS_UNQUOTER, token).str, <<>>>>
        ELSE <<_Unquoter__call__(QS_UNQUOTER, Slice(token, 1, e - 1)).str,
               _Unquoter__call__(QS_UNQUOTER,
                                 Slice(token, e + 1, Len(token))).str>>

\* the multi-map of an encoded query string: its tokens between '&' and
\* ';' that are not empty, in their order
query_to_pairs(query) ==
    LET amp == [i \in 1..Len(query) |->
                    IF query[i] = 59 THEN 38 ELSE query[i]]
        nonempty(token) == Len(token) > 0
        tokens == SelectSeq(split(amp, 38), nonempty)
    IN  [i \in 1..Len(tokens) |-> query_pair(tokens[i])]

\* the query string of a multi-map: key=value pairs joined by '&', keys and
\* values encoded with the qs quoter
get_str_query(pairs) ==
    join_with([i \in 1..Len(pairs) |->
                   quote(QUERY_PART_QUOTER, pairs[i][1]) \o <<61>>
                       \o quote(QUERY_PART_QUOTER, pairs[i][2])], 38)

\* the (key, value) pairs that a query argument gives: the argument is a
\* query string, or the pairs of a mapping, of a sequence of pairs or of
\* keyword arguments
pairs_of(q) ==
    IF q.type = "str" THEN query_to_pairs(quote(QUERY_QUOTER, q.value))
    ELSE q.value

\* the keys of a sequence of pairs
keys_of(pairs) == {pairs[i][1] : i \in 1..Len(pairs)}

RECURSIVE without_keys(_, _)
\* the pairs whose key is not in keys, in their order
without_keys(pairs, keys) ==
    IF Len(pairs) = 0 THEN <<>>
    ELSE IF Head(pairs)[1] \in keys THEN without_keys(Tail(pairs), keys)
    ELSE <<Head(pairs)>> \o without_keys(Tail(pairs), keys)

(* ---------------------------- derivations ------------------------------ *)

\* a derivation that returns the URL it was called on
Itself == [exc |-> "self", url |-> None]

\* the URL with some components replaced, through the shared routine
replaced(self, patch) ==
    LET new == [k \in DOMAIN self |->
                    IF k \in DOMAIN patch THEN patch[k] ELSE self[k]]
    IN  from_parts(new.scheme, new.user, new.password, new.host, new.port,
                   new.path, new.query, new.fragment)

\* the schemes that need a host: http, https, ws and wss
SCHEME_REQUIRES_HOST ==
    {<<104, 116, 116, 112>>, <<104, 116, 116, 112, 115>>, <<119, 115>>,
     <<119, 115, 115>>}

with_port_default_dropped(self, val) ==
    IF val = PyNone THEN replaced(self, [port |-> NoPort])
    ELSE IF val.type # "int" THEN Rejected("TypeError")
    ELSE IF val.value \notin 0..65535 THEN Rejected("ValueError")
    ELSE IF val.value = DEFAULT_PORTS(self.scheme)
    THEN replaced(self, [port |-> NoPort])
    ELSE replaced(self, [port |-> val.value])

\* url.with_port(port): None clears the port; a value that is no integer, or
\* a boolean, and a port out of range are rejected
with_port(self, val) ==
    IF val = PyNone THEN replaced(self, [port |-> NoPort])
    ELSE IF val.type # "int" THEN Rejected("TypeError")
    ELSE IF val.value \notin 0..65535 THEN Rejected("ValueError")
    ELSE replaced(self, [port |-> val.value])

with_path_kept(self, path) ==
    LET quoted == quote(PATH_QUOTER, path)
        normal == IF self.host = None THEN quoted ELSE normalize_path(quoted)
    IN  replaced(self,
                 [path |-> IF Len(normal) > 0 /\ normal[1] # 47
                           THEN <<47>> \o normal
                           ELSE normal])

\* url.with_path(path): the path is encoded, normalized when the URL has a
\* host, and given its leading '/'; query and fragment are cleared
with_path(self, path) ==
    LET quoted == quote(PATH_QUOTER, path)
        normal == IF self.host = None THEN quoted ELSE normalize_path(quoted)
    IN  replaced(self,
                 [path |-> IF Len(normal) > 0 /\ normal[1] # 47
                           THEN <<47>> \o normal
                           ELSE normal,
                  query |-> <<>>, fragment |-> <<>>])

update_query_kept(self, q) ==
    IF q = PyNone THEN replaced(self, [query |-> <<>>])
    ELSE replaced(self,
                  [query |->
                       get_str_query(query_to_pairs(self.query)
                                         \o pairs_of(q))])

\* url.update_query(query) and url % query: the entries of the keys of the
\* argument are removed and the new entries inserted; None clears the query
update_query(self, q) ==
    IF q = PyNone THEN replaced(self, [query |-> <<>>])
    ELSE replaced(self,
                  [query |->
                       get_str_query(
                           without_keys(query_to_pairs(self.query),
                                        keys_of(pairs_of(q)))
                               \o pairs_of(q))])

\* url.extend_query(query): the new entries are appended; the same URL is
\* returned for None
extend_query(self, q) ==
    IF q = PyNone THEN Itself
    ELSE replaced(self,
                  [query |-> get_str_query(query_to_pairs(self.query)
                                               \o pairs_of(q))])

\* url.without_query_params(*keys): it does nothing if none of the keys is
\* in the query
without_query_params(self, keys) ==
    IF keys_of(query_to_pairs(self.query)) \cap keys = {} THEN Itself
    ELSE replaced(self,
                  [query |-> get_str_query(
                                 without_keys(query_to_pairs(self.query),
                                              keys))])

\* url.with_fragment(fragment): None clears the fragment; no new URL is
\* created if the fragment is unchanged
with_fragment(self, fragment) ==
    LET raw == IF fragment = None THEN <<>>
               ELSE quote(FRAGMENT_QUOTER, fragment)
    IN  IF self.fragment = raw THEN Itself
        ELSE replaced(self, [fragment |-> raw])

\* url.with_name(name): the last part of the path is replaced, query and
\* fragment are cleared
with_name(self, name) ==
    LET quoted == quote(PATH_QUOTER, name)
        dir == Slice(self.path, 1, rfind(self.path, 47, Len(self.path)))
    IN  IF 47 \in Range(name) \/ quoted \in {<<46>>, <<46, 46>>}
        THEN Rejected("ValueError")
        ELSE replaced(self,
                      [path |-> (IF Len(dir) = 0 /\ self.host # None
                                 THEN <<47>>
                                 ELSE dir) \o quoted,
                       query |-> <<>>, fragment |-> <<>>])

\* url.with_suffix(suffix): the file extension of the name, the last part
\* of the path, is replaced, query and fragment are cleared
with_suffix(self, suffix) ==
    LET name == Slice(self.path, rfind(self.path, 47, Len(self.path)) + 1,
                      Len(self.path))
        dot == rfind(name, 46, Len(name))
        old == IF 1 < dot /\ dot < Len(name)
               THEN Slice(name, dot, Len(name))
               ELSE <<>>
    IN  IF Len(suffix) < 2 \/ suffix[1] # 46 THEN Rejected("ValueError")
        ELSE IF Len(name) = 0 THEN Rejected("ValueError")
        ELSE with_name(self, Slice(name, 1, Len(name) - Len(old)) \o suffix)

\* url.joinpath(*paths) and url / path: the encoded elements are appended
\* to the path with one '/' between the path and the first of them; query
\* and fragment are cleared
joinpath(self, paths) ==
    LET RECURSIVE segments_of(_)
        segments_of(elements) ==
            IF Len(elements) = 0 THEN <<>>
            ELSE split(quote(PATH_QUOTER, Head(elements)), 47)
                     \o segments_of(Tail(elements))
        old == IF Len(self.path) = 0 THEN <<>> ELSE split(self.path, 47)
        base == IF Len(old) > 0 /\ Len(old[Len(old)]) = 0
                THEN Slice(old, 1, Len(old) - 1)
                ELSE old
        segments == base \o segments_of(paths)
        rooted == IF /\ self.host # None
                     /\ Len(segments) > 0
                     /\ Len(segments[1]) > 0
                  THEN <<<<>>>> \o segments
                  ELSE segments
    IN  IF \E i \in 1..Len(paths) : Len(paths[i]) > 0 /\ paths[i][1] = 47
        THEN Rejected("ValueError")
        ELSE replaced(self, [path |-> join_with(rooted, 47),
                             query |-> <<>>, fragment |-> <<>>])

join_appended(self, other) ==
    LET merged == self.path \o <<47>> \o other.path
    IN
    IF Len(other.scheme) > 0
    THEN replaced(other, [path |-> normalize_path(other.path)])
    ELSE IF other.host # None
    THEN replaced(other, [scheme |-> self.scheme,
                          path |-> normalize_path(other.path)])
    ELSE IF Len(other.path) = 0
    THEN replaced(self, [query |-> IF Len(other.query) > 0 THEN other.query
                                   ELSE self.query,
                         fragment |-> other.fragment])
    ELSE replaced(self,
                  [path |-> IF other.path[1] = 47
                            THEN normalize_path(other.path)
                            ELSE normalize_path(merged),
                   query |-> other.query, fragment |-> other.fragment])

\* url.join(other): the reference other resolved against the base url
\* (RFC 3986 section 5.2.2), the path of a relative-path reference merged
\* with the path of the base (section 5.2.3)
join(self, other) ==
    LET merged ==
            IF self.host # None /\ Len(self.path) = 0
            THEN <<47>> \o other.path
            ELSE Slice(self.path, 1, rfind(self.path, 47, Len(self.path)))
                     \o other.path
    IN
    IF Len(other.scheme) > 0
    THEN replaced(other, [path |-> normalize_path(other.path)])
    ELSE IF other.host # None
    THEN replaced(other, [scheme |-> self.scheme,
                          path |-> normalize_path(other.path)])
    ELSE IF Len(other.path) = 0
    THEN replaced(self, [query |-> IF Len(other.query) > 0 THEN other.query
                                   ELSE self.query,
                         fragment |-> other.fragment])
    ELSE replaced(self,
                  [path |-> IF other.path[1] = 47
                            THEN normalize_path(other.path)
                            ELSE normalize_path(merged),
                   query |-> other.query, fragment |-> other.fragment])

(* --------------------------- the URL objects ---------------------------- *)

\* the number of URL objects of a run
MaxUrls == 2

\* the arguments of the calls, by the call that takes them
Args ==
    LET \* the ports given to the builder and to with_port: None, 80, 443,
        \* 8080, 0, 65536, True and "80"
        ports ==
            {PyNone, PyValue("int", FALSE, 80), PyValue("int", FALSE, 443),
             PyValue("int", FALSE, 8080), PyValue("int", FALSE, 0),
             PyValue("int", FALSE, 65536), PyValue("bool", FALSE, 1),
             PyValue("str", TRUE, <<56, 48>>)}
    IN
    [\* the strings given to the constructor: "", "/a", "a/b.txt", "//h",
     \* "http://h", "http://h/", "http://h:80", "http://h:81/a", "https://h:443/",
     \* "ws://h:80/c", "http://u:p@h/a?k=v#f", "http://u:@h", "HTTP://H/A b",
     \* "////b", "//u@/a", "/a?a=b&c=e&c=f", "http://h/?a=b&b=1", "http://h?q",
     \* "http://h/a/./b/../c", "http://h:/p", "http://h:x", "?k=v w", "#f",
     \* "mailto:x", "http://h/p/to.tar.gz?arg#frag"
     URL |->
         {<<>>,
          <<47, 97>>,
          <<97, 47, 98, 46, 116, 120, 116>>,
          <<47, 47, 104>>,
          <<104, 116, 116, 112, 58, 47, 47, 104>>,
          <<104, 116, 116, 112, 58, 47, 47, 104, 47>>,
          <<104, 116, 116, 112, 58, 47, 47, 104, 58, 56, 48>>,
          <<104, 116, 116, 112, 58, 47, 47, 104, 58, 56, 49, 47, 97>>,
          <<104, 116, 116, 112, 115, 58, 47, 47, 104, 58, 52, 52, 51, 47>>,
          <<119, 115, 58, 47, 47, 104, 58, 56, 48, 47, 99>>,
          <<104, 116, 116, 112, 58, 47, 47, 117, 58, 112, 64, 104, 47, 97, 63, 107,
            61, 118, 35, 102>>,
          <<104, 116, 116, 112, 58, 47, 47, 117, 58, 64, 104>>,
          <<72, 84, 84, 80, 58, 47, 47, 72, 47, 65, 32, 98>>,
          <<47, 47, 47, 47, 98>>,
          <<47, 47, 117, 64, 47, 97>>,
          <<47, 97, 63, 97, 61, 98, 38, 99, 61, 101, 38, 99, 61, 102>>,
          <<104, 116, 116, 112, 58, 47, 47, 104, 47, 63, 97, 61, 98, 38, 98, 61, 49>>,
          <<104, 116, 116, 112, 58, 47, 47, 104, 63, 113>>,
          <<104, 116, 116, 112, 58, 47, 47, 104, 47, 97, 47, 46, 47, 98, 47, 46,
            46, 47, 99>>,
          <<104, 116, 116, 112, 58, 47, 47, 104, 58, 47, 112>>,
          <<104, 116, 116, 112, 58, 47, 47, 104, 58, 120>>,
          <<63, 107, 61, 118, 32, 119>>,
          <<35, 102>>,
          <<109, 97, 105, 108, 116, 111, 58, 120>>,
          <<104, 116, 116, 112, 58, 47, 47, 104, 47, 112, 47, 116, 111, 46, 116,
            97, 114, 46, 103, 122, 63, 97, 114, 103, 35, 102, 114, 97, 103>>},
     \* the schemes given to with_scheme: "https", "WS", "file"
     with_scheme |->
         {<<104, 116, 116, 112, 115>>,
          <<87, 83>>,
          <<102, 105, 108, 101>>},
     \* the users given to with_user: None, "v", "a b"
     with_user |->
         {None,
          <<118>>,
          <<97, 32, 98>>},
     \* the passwords given to with_password: None, "", "q"
     with_password |->
         {None,
          <<>>,
          <<113>>},
     \* the hosts given to with_host: "", "g", "G.x"
     with_host |->
         {<<>>,
          <<103>>,
          <<71, 46, 120>>},
     \* the paths given to with_path: "", "/p", "p", "//b/c", "/a/../b c"
     with_path |->
         {<<>>,
          <<47, 112>>,
          <<112>>,
          <<47, 47, 98, 47, 99>>,
          <<47, 97, 47, 46, 46, 47, 98, 32, 99>>},
     \* the fragments given to with_fragment: None, "f", "a b"
     with_fragment |->
         {None,
          <<102>>,
          <<97, 32, 98>>},
     \* the names given to with_name: "n", "a/b", "..", "n.txt"
     with_name |->
         {<<110>>,
          <<97, 47, 98>>,
          <<46, 46>>,
          <<110, 46, 116, 120, 116>>},
     \* the suffixes given to with_suffix: ".doc", "doc"
     with_suffix |->
         {<<46, 100, 111, 99>>,
          <<100, 111, 99>>},
     \* the path elements given to the '/' operator: "to", ""
     truediv |->
         {<<116, 111>>,
          <<>>},
     \* the references given to join, each the string of a URL: "b/c", "/x",
     \* "//other/y", "?q", "#f", "../z", "https://o/p"
     join |->
         {<<98, 47, 99>>,
          <<47, 120>>,
          <<47, 47, 111, 116, 104, 101, 114, 47, 121>>,
          <<63, 113>>,
          <<35, 102>>,
          <<46, 46, 47, 122>>,
          <<104, 116, 116, 112, 115, 58, 47, 47, 111, 47, 112>>},
     \* the query arguments: None, "c=d&c=f", "", [("c", "d")], [("b", "2")], [("a",
     \* "1"), ("c", "x y"), ("a", "é")]
     query |->
         {PyNone,
          PyValue("str", TRUE, <<99, 61, 100, 38, 99, 61, 102>>),
          PyValue("str", TRUE, <<>>),
          PyValue("list", FALSE, <<<<<<99>>, <<100>>>>>>),
          PyValue("list", FALSE, <<<<<<98>>, <<50>>>>>>),
          PyValue("list", FALSE,
                  <<<<<<97>>, <<49>>>>, <<<<99>>, <<120, 32, 121>>>>,
                    <<<<97>>, <<233>>>>>>)},
     \* the keys given to without_query_params: ("a"), ("c", "z"), ("z")
     keys |->
         {{<<97>>},
          {<<99>>, <<122>>},
          {<<122>>}},
     \* the elements given to joinpath: ("to", "sub"), ("/x"), ("a/b")
     joinpath |->
         {<<<<116, 111>>, <<115, 117, 98>>>>,
          <<<<47, 120>>>>,
          <<<<97, 47, 98>>>>},
     port |-> ports,
     \* the components given to the builder: scheme "" or "http", user None or
     \* "u", password None or "p", host None or "H", a port, path "", "/a b" or
     \* "a", query None or a=b, fragment "" or "f"
     build |->
         [scheme : {<<>>, <<104, 116, 116, 112>>},
          user : {None, <<117>>},
          password : {None},
          host : {None, <<72>>},
          port : ports,
          path : {<<>>, <<47, 97, 32, 98>>, <<97>>},
          query : {PyNone, PyValue("list", FALSE, <<<<<<97>>, <<98>>>>>>)},
          fragment : {<<>>}]
             \cup [scheme : {<<104, 116, 116, 112>>}, user : {<<117>>},
                   password : {<<112>>}, host : {<<72>>}, port : {PyNone},
                   path : {<<>>}, query : {PyNone}, fragment : {<<102>>}]]

\* URL.build(scheme=..., user=..., password=..., host=..., port=...,
\* path=..., query=..., fragment=...): a port that is no integer is rejected,
\* and so is the port 0; the components are encoded
URL_build(scheme, user, password, host, val, path, q, fragment) ==
    LET quoted == quote(PATH_QUOTER, path)
    IN  IF val # PyNone /\ val.type # "int" THEN Rejected("TypeError")
        ELSE IF val # PyNone /\ val.value = 0 THEN Rejected("ValueError")
        ELSE from_parts(lower(scheme), quote_opt(QUOTER, user),
                        quote_opt(QUOTER, password),
                        IF host = None THEN None ELSE lower(host),
                        IF val = PyNone THEN NoPort ELSE val.value,
                        IF host = None THEN quoted
                        ELSE normalize_path(quoted),
                        IF q = PyNone THEN <<>>
                        ELSE IF q.type = "str"
                        THEN quote(QUERY_QUOTER, q.value)
                        ELSE get_str_query(q.value),
                        quote(FRAGMENT_QUOTER, fragment))

\* a new URL object: the objects that exist are kept as they are
new_object_inplace(heap, self, url) ==
    IF self = 0 THEN [urls |-> Append(heap, url), id |-> Len(heap) + 1]
    ELSE [urls |-> [heap EXCEPT ![self] = url], id |-> self]

\* the object that a call returns is a new one: the objects that exist stay
\* as they are
new_object(heap, self, url) ==
    [urls |-> Append(heap, url), id |-> Len(heap) + 1]

InitUrl ==
    /\ quoter = QUOTER
    /\ unquoter = QS_UNQUOTER
    /\ orig = 0
    /\ arg = [op |-> "none"]
    /\ ret = [exc |-> "none", id |-> 0]
    /\ pc = "url"
    /\ urls = <<>>
    /\ BUFFER = <<>>
    /\ calls = <<>>

\* what a call leaves: orig is the id of the URL it was made on (0 for the
\* constructor and the builder), arg the call, ret the id of the URL it
\* returned or the error it raised
Deliver(self, call, r) ==
    /\ orig' = self
    /\ arg' = call
    /\ IF r = Itself
       THEN /\ ret' = [exc |-> "none", id |-> self]
            /\ UNCHANGED urls
       ELSE IF r.exc = "none"
       THEN LET new == new_object(urls, self, r.url)
            IN  /\ ret' = [exc |-> "none", id |-> new.id]
                /\ urls' = new.urls
       ELSE /\ ret' = [exc |-> r.exc, id |-> 0]
            /\ UNCHANGED urls
    /\ UNCHANGED <<quoter, unquoter, pc, BUFFER, calls>>

\* URL(val)
UrlNew ==
    /\ pc = "url"
    /\ Len(urls) = 0
    /\ \E val \in Args.URL :
        Deliver(0, [op |-> "URL", str |-> val], URL__new__(val))

\* URL.build(...)
UrlBuild ==
    /\ pc = "url"
    /\ Len(urls) = 0
    /\ \E b \in Args.build :
        Deliver(0, [op |-> "build", parts |-> b],
                URL_build(b.scheme, b.user, b.password, b.host, b.port,
                          b.path, b.query, b.fragment))

\* the ids of the URLs that a derivation can be called on: a caller goes on
\* while no call has raised
Selves ==
    IF pc = "url" /\ ret.exc = "none" /\ Len(urls) < MaxUrls
    THEN DOMAIN urls
    ELSE {}

\* url.with_scheme(scheme): a relative URL takes only a scheme that does not
\* need a host
WithScheme ==
    \E id \in Selves, scheme \in Args.with_scheme :
        LET self == urls[id]
        IN  Deliver(id, [op |-> "with_scheme", str |-> scheme],
            IF self.host = None /\ lower(scheme) \in SCHEME_REQUIRES_HOST
            THEN Rejected("ValueError")
            ELSE replaced(self, [scheme |-> lower(scheme)]))

\* url.with_user(user): None clears user and password
WithUser ==
    \E id \in Selves, user \in Args.with_user :
        LET self == urls[id]
        IN  Deliver(id, [op |-> "with_user", str |-> user],
            IF user = None
            THEN replaced(self, [user |-> None, password |-> None])
            ELSE replaced(self, [user |-> quote(QUOTER, user)]))

\* url.with_password(password): None clears the password
WithPassword ==
    \E id \in Selves, password \in Args.with_password :
        LET self == urls[id]
        IN  Deliver(id, [op |-> "with_password", str |-> password],
            replaced(self, [password |-> quote_opt(QUOTER, password)]))

\* url.with_host(host): not allowed for a relative URL, nor with an empty
\* host
WithHost ==
    \E id \in Selves, host \in Args.with_host :
        LET self == urls[id]
        IN  Deliver(id, [op |-> "with_host", str |-> host],
            IF self.host = None \/ Len(host) = 0 THEN Rejected("ValueError")
            ELSE replaced(self, [host |-> lower(host)]))

WithPort ==
    \E id \in Selves, val \in Args.port :
        Deliver(id, [op |-> "with_port", port |-> val],
                with_port(urls[id], val))

WithPath ==
    \E id \in Selves, val \in Args.with_path :
        Deliver(id, [op |-> "with_path", str |-> val],
                with_path(urls[id], val))

\* url.with_query(query): the whole query is replaced; None clears it
WithQuery ==
    \E id \in Selves, q \in Args.query :
        LET self == urls[id]
        IN  Deliver(id, [op |-> "with_query", query |-> q],
            IF q = PyNone THEN replaced(self, [query |-> <<>>])
            ELSE IF q.type = "str"
            THEN replaced(self, [query |-> quote(QUERY_QUOTER, q.value)])
            ELSE replaced(self, [query |-> get_str_query(q.value)]))

UpdateQuery ==
    \E id \in Selves, val \in Args.query :
        Deliver(id, [op |-> "update_query", query |-> val],
                update_query(urls[id], val))

\* url % query
Mod ==
    \E id \in Selves, val \in Args.query \ {PyNone} :
        Deliver(id, [op |-> "%", query |-> val],
                update_query(urls[id], val))

ExtendQuery ==
    \E id \in Selves, val \in Args.query :
        Deliver(id, [op |-> "extend_query", query |-> val],
                extend_query(urls[id], val))

WithoutQueryParams ==
    \E id \in Selves, val \in Args.keys :
        Deliver(id, [op |-> "without_query_params", keys |-> val],
                without_query_params(urls[id], val))

WithFragment ==
    \E id \in Selves, val \in Args.with_fragment :
        Deliver(id, [op |-> "with_fragment", str |-> val],
                with_fragment(urls[id], val))

WithName ==
    \E id \in Selves, val \in Args.with_name :
        Deliver(id, [op |-> "with_name", str |-> val],
                with_name(urls[id], val))

WithSuffix ==
    \E id \in Selves, val \in Args.with_suffix :
        Deliver(id, [op |-> "with_suffix", str |-> val],
                with_suffix(urls[id], val))

Joinpath ==
    \E id \in Selves, val \in Args.joinpath :
        Deliver(id, [op |-> "joinpath", paths |-> val],
                joinpath(urls[id], val))

\* url / path
Truediv ==
    \E id \in Selves, val \in Args.truediv :
        Deliver(id, [op |-> "/", str |-> val],
                joinpath(urls[id], <<val>>))

Join ==
    \E id \in Selves, val \in Args.join :
        Deliver(id, [op |-> "join", str |-> val],
                join(urls[id], URL__new__(val).url))

\* url.origin(): scheme, host and port only
Origin ==
    \E id \in Selves :
        LET self == urls[id]
        IN  Deliver(id, [op |-> "origin"],
            replaced(self, [user |-> None, password |-> None, path |-> <<>>,
                            query |-> <<>>, fragment |-> <<>>]))

\* url.relative(): path, query and fragment only
Relative ==
    \E id \in Selves :
        LET self == urls[id]
        IN  Deliver(id, [op |-> "relative"],
            replaced(self, [scheme |-> <<>>, user |-> None, password |-> None,
                            host |-> None, port |-> NoPort]))

\* url.parent: the last part of the path is removed, query and fragment are
\* cleared
Parent ==
    \E id \in Selves :
        LET self == urls[id]
        IN  Deliver(id, [op |-> "parent"],
            LET cut == rfind(self.path, 47, Len(self.path))
            IN  replaced(self,
                         [path |-> IF cut <= 1 THEN Slice(self.path, 1, cut)
                                   ELSE Slice(self.path, 1, cut - 1),
                          query |-> <<>>, fragment |-> <<>>]))

NextUrl ==
    \/ UrlNew \/ UrlBuild
    \/ WithScheme \/ WithUser \/ WithPassword \/ WithHost \/ WithPort
    \/ WithPath \/ WithQuery \/ UpdateQuery \/ Mod \/ ExtendQuery
    \/ WithoutQueryParams \/ WithFragment \/ WithName \/ WithSuffix
    \/ Joinpath \/ Truediv \/ Join \/ Origin \/ Relative \/ Parent

SpecUrl == InitUrl /\ [][NextUrl]_vars

(* ------------------------------- claims -------------------------------- *)

QuoterDone == pc \in {"quoted", "requoted"} /\ ret.exc = "none"

HexDigits == (48..57) \cup (65..70) \cup (97..102)
UpperHexDigits == (48..57) \cup (65..70)

\* the uppercase hexadecimal digit of n, 0 <= n < 16
HexChar(n) == IF n < 10 THEN 48 + n ELSE 55 + n

\* what the quoter writes for val when the allocator does not fail
Written(self, val) ==
    _do_quote_loop(self, val,
                   _do_quote_locals(_init_writer(MaxAllocs))).writer.buf

Prefix(val, i) == SubSeq(val, 1, i - 1)
Suffix(val, i) == SubSeq(val, i + 1, Len(val))

\* val[i] is a '%' that two hexadecimal digits follow
EscapeAt(val, i) ==
    /\ val[i] = 37
    /\ i + 2 <= Len(val)
    /\ val[i + 1] \in HexDigits
    /\ val[i + 2] \in HexDigits

\* the characters the quoter emits as they are although an escape or the
\* space of a query string would have to stay: '%' is safe and not
\* protected, or qs is set and '+' is not safe or ' ' is safe and not protected
Reversible(self) ==
    /\ 37 \notin self.safe_table \ self.protected_table
    /\ self.qs => /\ 43 \in self.safe_table
                  /\ 32 \notin self.safe_table \ self.protected_table

\* C1 as stated: quoting is idempotent for every profile, i.e. the quoter
\* called with its own output returns that output
C1_Original == (pc = "requoted" /\ ret.exc = "none") => ret.str = arg

\* C1 as amended: quoting is idempotent for every profile in which '%' is not
\* an unprotected safe character and, when qs is set, '+' is safe and ' ' is
\* not an unprotected safe character
C1_Idempotent ==
    (pc = "requoted" /\ ret.exc = "none" /\ Reversible(quoter))
        => ret.str = arg

C1_Witness ==
    /\ pc = "requoted"
    /\ ret.exc = "none"
    /\ Reversible(quoter)
    /\ quoter.qs
    /\ arg # orig
    /\ 37 \in Range(arg)
    /\ ret.str = arg

\* C3: the string the quoter returns contains only ASCII characters, also for
\* an input with surrogate code points
C3_AsciiOutput ==
    QuoterDone => \A i \in 1..Len(ret.str) : ret.str[i] < 128

\* C4: a '%' that two hexadecimal digits do not follow is emitted as "%25",
\* and the characters after it are quoted as if the input started there
C4_MalformedPercent ==
    QuoterDone =>
        \A i \in 1..Len(arg) :
            (arg[i] = 37 /\ ~EscapeAt(arg, i))
                => ret.str = (Written(quoter, Prefix(arg, i)) \o <<37, 50, 53>>)
                                 \o Written(quoter, Suffix(arg, i))

\* "a%2zb" is quoted to "a%252zb" by the default profile
C4_Witness ==
    /\ pc = "quoted"
    /\ quoter = _Quoter__init__(<<>>, <<>>, FALSE)
    /\ arg = <<97, 37, 50, 122, 98>>
    /\ ret = Returned(<<97, 37, 50, 53, 50, 122, 98>>)

WellFormedEscapes(str) ==
    \A i \in 1..Len(str) :
        str[i] = 37 => /\ i + 2 <= Len(str)
                       /\ str[i + 1] \in UpperHexDigits
                       /\ str[i + 2] \in UpperHexDigits

\* C7 as stated: for every profile, each '%' of the returned string is
\* followed by two uppercase hexadecimal digits
C7_Original == QuoterDone => WellFormedEscapes(ret.str)

\* C7 as amended: the same, for every profile in which '%' is not an
\* unprotected safe character
C7_UppercaseEscapes ==
    (QuoterDone /\ 37 \notin quoter.safe_table \ quoter.protected_table)
        => WellFormedEscapes(ret.str)

\* "%2f" comes back as "%2F"
C7_Witness ==
    /\ QuoterDone
    /\ 37 \notin quoter.safe_table \ quoter.protected_table
    /\ arg = <<37, 50, 102>>
    /\ ret.str = <<37, 50, 70>>

\* C8: an escape of a protected ASCII character stays an escape, with
\* uppercase digits
C8_ProtectedStaysEscaped ==
    QuoterDone =>
        \A i \in 1..Len(arg) :
            (/\ EscapeAt(arg, i)
             /\ _restore_ch(arg[i + 1], arg[i + 2]) \in quoter.protected_table)
                => LET c == _restore_ch(arg[i + 1], arg[i + 2])
                   IN ret.str =
                          (Written(quoter, Prefix(arg, i))
                               \o <<37, HexChar(c \div 16), HexChar(c % 16)>>)
                              \o Written(quoter, Suffix(arg, i + 2))

\* "%2f" with '/' protected (and so safe) comes back as "%2F"
C8_Witness ==
    /\ QuoterDone
    /\ 47 \in quoter.protected_table
    /\ 47 \in quoter.safe_table
    /\ arg = <<37, 50, 102>>
    /\ ret.str = <<37, 50, 70>>

\* the quoter was built with no safe and no protected characters
DefaultProfile(self) == self = _Quoter__init__(<<>>, <<>>, self.qs)

\* ASCII letters, digits, "-._~" and "!$'()*,"
C9_Verbatim ==
    (65..90) \cup (97..122) \cup (48..57) \cup {45, 46, 95, 126}
        \cup {33, 36, 39, 40, 41, 42, 44}

\* what the statement says of one character: with qs=false '+', '?', '=',
\* ';' and '&' are emitted as they are too, and every other character is
\* percent-encoded
C9_OriginalChar(c, qs) ==
    IF c \in C9_Verbatim \/ (~qs /\ c \in {43, 63, 61, 59, 38}) THEN <<c>>
    ELSE <<37, HexChar(c \div 16), HexChar(c % 16)>>

\* what the code does with one character: with qs=false '+', '=', ';' and
\* '&' are emitted as they are too ('?' is not), the space is emitted as '+'
\* with qs=true, and every other character is percent-encoded
C9_AmendedChar(c, qs) ==
    IF c \in C9_Verbatim \/ (~qs /\ c \in {43, 61, 59, 38}) THEN <<c>>
    ELSE IF qs /\ c = 32 THEN <<43>>
    ELSE <<37, HexChar(c \div 16), HexChar(c % 16)>>

RECURSIVE C9_OriginalStr(_, _)
C9_OriginalStr(val, qs) ==
    IF Len(val) = 0 THEN <<>>
    ELSE C9_OriginalChar(Head(val), qs) \o C9_OriginalStr(Tail(val), qs)

RECURSIVE C9_AmendedStr(_, _)
C9_AmendedStr(val, qs) ==
    IF Len(val) = 0 THEN <<>>
    ELSE C9_AmendedChar(Head(val), qs) \o C9_AmendedStr(Tail(val), qs)

\* an input of ASCII characters, '%' on its own or nowhere
C9_Case ==
    /\ QuoterDone
    /\ DefaultProfile(quoter)
    /\ \A i \in 1..Len(arg) : arg[i] < 128
    /\ (37 \in Range(arg) => Len(arg) = 1)

\* C9 as stated: with no safe and no protected characters the quoter emits
\* as they are the letters, the digits, "-._~" and "!$'()*,", and with
\* qs=false '+', '?', '=', ';' and '&' too; it percent-encodes every other
\* character
C9_Original == C9_Case => ret.str = C9_OriginalStr(arg, quoter.qs)

\* C9 as amended: with no safe and no protected characters the quoter emits
\* as they are the letters, the digits, "-._~" and "!$'()*,", and with
\* qs=false '+', '=', ';' and '&' too; with qs=true it emits the space as
\* '+'; it percent-encodes every other character, '?' among them
C9_VerbatimSet == C9_Case => ret.str = C9_AmendedStr(arg, quoter.qs)

\* '?' is percent-encoded with qs=false
C9_Witness ==
    /\ C9_Case
    /\ ~quoter.qs
    /\ arg = <<63>>
    /\ ret.str = <<37, 51, 70>>

\* C10: a space that is not safe is emitted as '+' with qs=true and as "%20"
\* with qs=false, wherever it stands
C10_Space ==
    QuoterDone =>
        \A i \in 1..Len(arg) :
            (arg[i] = 32 /\ 32 \notin quoter.safe_table)
                => ret.str =
                       (Written(quoter, Prefix(arg, i))
                            \o (IF quoter.qs THEN <<43>> ELSE <<37, 50, 48>>))
                           \o Written(quoter, Suffix(arg, i))

\* a space after "%2", with qs=true
C10_Witness ==
    /\ QuoterDone
    /\ quoter.qs
    /\ 32 \notin quoter.safe_table
    /\ arg = <<37, 50, 32>>
    /\ ret.str = <<37, 50, 53, 50, 43>>

UnquoterDone == pc = "unquoted" /\ ret.exc = "none"

\* val has k escapes in a row from index i on
RunAt(val, i, k) == \A m \in 0..(k - 1) : EscapeAt(val, i + 3 * m)

\* the bytes of the k escapes that start at index i
RunBytes(val, i, k) ==
    [m \in 1..k |-> _restore_ch(val[i + 3 * m - 2], val[i + 3 * m - 1])]

\* no part of the run decodes as UTF-8
Undecodable(bytes) ==
    \A a \in 1..Len(bytes) : \A b \in a..Len(bytes) :
        Utf8Decode(SubSeq(bytes, a, b)).exc # "none"

\* val[i .. i + 3k - 1] is a maximal run of k escapes, after a prefix without
\* '%', no part of which decodes as UTF-8
C5_Run(val, i, k) ==
    /\ k >= 1
    /\ i + 3 * k - 1 <= Len(val)
    /\ RunAt(val, i, k)
    /\ 37 \notin Range(Prefix(val, i))
    /\ (i + 3 * k <= Len(val) => val[i + 3 * k] # 37)
    /\ Undecodable(RunBytes(val, i, k))

\* C5: in the unquoter, a run of escapes that does not decode as UTF-8 is in the output as
\* it is in the input, be it at the end of the input or before further
\* characters
C5_RunPreserved ==
    UnquoterDone =>
        \A i \in 1..Len(arg) : \A k \in 1..(Len(arg) \div 3) :
            C5_Run(arg, i, k)
                => IsSubstring(SubSeq(arg, i, i + 3 * k - 1), ret.str)

\* the input ends with a '%', or with a '%' and one more character, after a
\* prefix without '%'
C6_Partial(val, n) ==
    /\ n \in {1, 2}
    /\ Len(val) >= n
    /\ val[Len(val) - n + 1] = 37
    /\ 37 \notin Range(SubSeq(val, 1, Len(val) - n))
    /\ (n = 2 => val[Len(val)] # 37)

\* C6: a percent sequence the unquoter's input ends in the middle of, a
\* final '%' or a final '%' and one character, is at the end of the output
\* as it is
C6_PartialPreserved ==
    UnquoterDone =>
        \A n \in {1, 2} :
            C6_Partial(arg, n)
                => /\ Len(ret.str) >= n
                   /\ SubSeq(ret.str, Len(ret.str) - n + 1, Len(ret.str))
                          = SubSeq(arg, Len(arg) - n + 1, Len(arg))

RoundTripDone ==
    /\ pc = "unquoted_quoted"
    /\ ret.exc = "none"
    /\ unquoter = DefaultUnquoter
    /\ DefaultProfile(quoter)
    /\ ~quoter.qs

\* only ASCII characters, and two hexadecimal digits after every '%'
ValidPercentEncoded(val) ==
    \A i \in 1..Len(val) :
        /\ val[i] < 128
        /\ val[i] = 37 => EscapeAt(val, i)

\* val[i] is a digit of an escape of a valid percent-encoded string
InEscape(val, i) ==
    \/ (i > 1 /\ val[i - 1] = 37)
    \/ (i > 2 /\ val[i - 2] = 37)

\* a and b are equal up to the case of the digits of the escapes of a
SameUpToHexCase(a, b) ==
    /\ Len(a) = Len(b)
    /\ \A i \in 1..Len(a) :
        IF InEscape(a, i) THEN _from_hex(a[i]) = _from_hex(b[i])
        ELSE a[i] = b[i]

MaximalRun(val, i, k) ==
    /\ k >= 1
    /\ i + 3 * k - 1 <= Len(val)
    /\ \A m \in 0..(k - 1) : val[i + 3 * m] = 37
    /\ ~(i > 3 /\ val[i - 3] = 37)
    /\ (i + 3 * k <= Len(val) => val[i + 3 * k] # 37)

\* the characters the default quoter emits as they are
C2_Safe == ALLOWED \cup QS

\* s is in the form the default quoter gives to a text: the characters
\* outside the escapes are safe, every maximal run of escapes is the UTF-8
\* encoding of characters that are not safe, and no escape of '%' stands
\* before two hexadecimal digits
C2_Canonical(val) ==
    /\ ValidPercentEncoded(val)
    /\ \A i \in 1..Len(val) :
        (val[i] # 37 /\ ~InEscape(val, i)) => val[i] \in C2_Safe
    /\ \A i \in 1..Len(val) : \A k \in 1..(Len(val) \div 3) :
        MaximalRun(val, i, k)
            => /\ Utf8Decode(RunBytes(val, i, k)).exc = "none"
               /\ Range(Utf8Decode(RunBytes(val, i, k)).str) \cap C2_Safe = {}
    /\ \A i \in 1..Len(val) :
        (val[i] = 37 /\ _restore_ch(val[i + 1], val[i + 2]) = 37)
            => ~(/\ i + 4 <= Len(val)
                 /\ val[i + 3] \in HexDigits
                 /\ val[i + 4] \in HexDigits)

RECURSIVE PlainFrom(_, _, _)
PlainFrom(val, j, i) ==
    IF j >= i THEN j = i
    ELSE IF val[j] = 37 THEN PlainFrom(val, j + 3, i)
    ELSE PlainFrom(val, j + 1, i)

\* val[i] is outside the percent sequences of val
PlainAt(val, i) == PlainFrom(val, 1, i)

\* what the unquoter returns for val
Unquoted(self, val) == _Unquoter__call__(self, val).str

\* s starts with p
StartsWith(s, p) == Len(p) <= Len(s) /\ SubSeq(s, 1, Len(p)) = p

\* C11: in the unquoter, a '+' outside a percent sequence is output as a space
\* exactly when qs is set and '+' is not in the unsafe string, and as '+' in
\* every other configuration
C11_Plus ==
    UnquoterDone =>
        \A i \in 1..Len(arg) :
            (arg[i] = 43 /\ PlainAt(arg, i))
                => StartsWith(
                       ret.str,
                       Append(Unquoted(unquoter, Prefix(arg, i)),
                              IF unquoter.qs /\ 43 \notin Range(unquoter.unsafe)
                              THEN 32 ELSE 43))

\* "%41+" is unquoted to "A " with qs set and no unsafe characters
C11_Witness ==
    /\ UnquoterDone
    /\ unquoter.qs
    /\ unquoter.unsafe = <<>>
    /\ arg = <<37, 52, 49, 43>>
    /\ ret.str = <<65, 32>>

\* the escape of the ASCII character c, with uppercase digits
UpperEscape(c) == <<37, HexChar(c \div 16), HexChar(c % 16)>>

\* s ends with p
EndsWith(s, p) ==
    Len(p) <= Len(s) /\ SubSeq(s, Len(s) - Len(p) + 1, Len(s)) = p

\* the k escapes from index j on are a maximal run of val, read while no
\* percent sequence is open, and the escape at index i is one of them
RunAround(val, j, k, i) ==
    /\ k >= 1
    /\ j + 3 * k - 1 <= Len(val)
    /\ PlainAt(val, j)
    /\ RunAt(val, j, k)
    /\ ~(j > 3 /\ PlainAt(val, j - 3) /\ EscapeAt(val, j - 3))
    /\ (j + 3 * k <= Len(val) => ~EscapeAt(val, j + 3 * k))
    /\ i \in {j + 3 * m : m \in 0..(k - 1)}

\* val[i] starts an escape of one of the characters '+', '=', '&' and ';',
\* in a run of escapes that decodes as UTF-8
C12_Case(val, i) ==
    /\ EscapeAt(val, i)
    /\ _restore_ch(val[i + 1], val[i + 2]) \in {43, 61, 38, 59}
    /\ \E j \in 1..i : \E k \in 1..(Len(val) \div 3) :
        /\ RunAround(val, j, k, i)
        /\ Utf8Decode(RunBytes(val, j, k)).exc = "none"

\* C12: with qs set, an escape that decodes to '+', '=', '&' or ';' is output
\* as that escape with uppercase digits, never as the character, whatever the
\* unsafe string is
C12_QsEscapeKept ==
    (UnquoterDone /\ unquoter.qs) =>
        \A i \in 1..Len(arg) :
            C12_Case(arg, i)
                => /\ EndsWith(
                          Unquoted(unquoter, SubSeq(arg, 1, i + 2)),
                          UpperEscape(_restore_ch(arg[i + 1], arg[i + 2])))
                   /\ StartsWith(ret.str,
                                 Unquoted(unquoter, SubSeq(arg, 1, i + 2)))

\* the string has a character above U+007F
NonAscii(str) == \E i \in 1..Len(str) : str[i] > 127

\* C13: a quoter configured with a safe or a protected string that has a
\* character above U+007F raises ValueError, and nothing is quoted with that
\* configuration
C13_NonAsciiRejected ==
    /\ (pc = "start" /\ (NonAscii(arg.safe) \/ NonAscii(arg.protected)))
           => quoter.exc = "ValueError"
    /\ pc = "quoted" => quoter.exc = "none"

\* protected="/é" with an empty safe string is rejected
C13_Witness ==
    /\ pc = "start"
    /\ arg.safe = <<>>
    /\ arg.protected = <<47, 233>>
    /\ quoter.exc = "ValueError"

\* C14 as stated: the quoter called with a value that is not a string, nor
\* an instance of a subclass of str, raises TypeError, whatever the value
C14_Original ==
    (pc = "called" /\ ~arg.is_str) => ret.exc = "TypeError"

\* C14 as amended: the quoter called with a value other than None that is not
\* a string, nor an instance of a subclass of str, raises TypeError; called
\* with None it returns None
C14_TypeError ==
    /\ (pc = "called" /\ ~arg.is_str /\ arg # PyNone) => ret.exc = "TypeError"
    /\ (pc = "called" /\ arg = PyNone) => ret = ReturnedNone

\* bytes are rejected
C14_Witness ==
    /\ pc = "called"
    /\ arg = PyValue("bytes", FALSE, <<37, 50, 102>>)
    /\ ret.exc = "TypeError"

\* the UTF-8 encoding of the code point c per RFC 3629
Rfc3629(c) ==
    IF c < 128 THEN <<c>>
    ELSE IF c < 2048 THEN <<192 + (c \div 64), 128 + (c % 64)>>
    ELSE IF c < 65536
    THEN <<224 + (c \div 4096), 128 + ((c \div 64) % 64), 128 + (c % 64)>>
    ELSE <<240 + (c \div 262144), 128 + ((c \div 4096) % 64),
           128 + ((c \div 64) % 64), 128 + (c % 64)>>

\* the escapes of a sequence of bytes, uppercase, the high nibble first
RECURSIVE Escapes(_)
Escapes(bytes) ==
    IF Len(bytes) = 0 THEN <<>>
    ELSE <<37, HexChar(Head(bytes) \div 16), HexChar(Head(bytes) % 16)>>
             \o Escapes(Tail(bytes))

\* the quoter self has to encode the character c: it is neither '%', nor safe,
\* nor the space of a query string, nor a surrogate, nor above U+10FFFF
ToEncode(self, c) ==
    /\ c # 37
    /\ ~(c < 128 /\ c \in self.safe_table)
    /\ ~(self.qs /\ c = 32)
    /\ ~(55296 <= c /\ c <= 57343)
    /\ c <= 1114111

\* C15: a code point the quoter has to encode is emitted as the escapes of
\* the bytes of its UTF-8 encoding per RFC 3629, of one to four bytes, each
\* as '%' and two uppercase digits, wherever it stands
C15_Utf8Escapes ==
    QuoterDone =>
        \A i \in 1..Len(arg) :
            ToEncode(quoter, arg[i])
                => /\ ret.str =
                          (Written(quoter, Prefix(arg, i))
                               \o Escapes(Rfc3629(arg[i])))
                              \o Written(quoter, Suffix(arg, i))
                   /\ Utf8Decode(Rfc3629(arg[i])) = Returned(<<arg[i]>>)

\* U+0800, the first code point of three bytes, is quoted to "%E0%A0%80"
C15_Witness ==
    /\ QuoterDone
    /\ arg = <<2048>>
    /\ ToEncode(quoter, 2048)
    /\ ret.str = <<37, 69, 48, 37, 65, 48, 37, 56, 48>>

(* C16: every URL that the constructor, the builder or a derivation gives
   is equal to the URL parsed from its string form: URL(str(u)) == u. *)
RoundTrips(url) ==
    LET again == URL__new__(URL__str__(url))
    IN  again.exc = "none" /\ URL__eq__(again.url, url)

C16_RoundTrip == \A i \in DOMAIN urls : RoundTrips(urls[i])

(* C17: every derivation leaves every component of every URL that exists,
   the URL it was called on included, as it was; the URL it returns is a new
   one, or the URL it was called on when there is nothing to change
   (with_fragment with the fragment the URL has, extend_query(None),
   without_query_params with none of the keys in the query). *)
Derived == orig' > 0 /\ ret'.exc = "none"

Kept == \A i \in DOMAIN urls : i \in DOMAIN urls' /\ urls'[i] = urls[i]

NothingToChange(url, call) ==
    \/ /\ call.op = "with_fragment"
       /\ url.fragment = (IF call.str = None THEN <<>>
                          ELSE quote(FRAGMENT_QUOTER, call.str))
    \/ /\ call.op = "extend_query"
       /\ call.query = PyNone
    \/ /\ call.op = "without_query_params"
       /\ keys_of(query_to_pairs(url.query)) \cap call.keys = {}

values_of(pairs, key) ==
    LET each[i \in 0..Len(pairs)] ==
            IF i = 0 THEN <<>>
            ELSE IF pairs[i][1] = key THEN Append(each[i - 1], pairs[i][2])
            ELSE each[i - 1]
    IN  each[Len(pairs)]

entries_besides(pairs, keys) ==
    LET each[i \in 0..Len(pairs)] ==
            IF i = 0 THEN <<>>
            ELSE IF pairs[i][1] \in keys THEN each[i - 1]
            ELSE Append(each[i - 1], pairs[i])
    IN  each[Len(pairs)]

Updated(old, new, res) ==
    /\ \A key \in keys_of(new) : values_of(res, key) = values_of(new, key)
    /\ entries_besides(res, keys_of(new)) = entries_besides(old, keys_of(new))

UpdateReturned ==
    /\ arg.op \in {"update_query", "%"}
    /\ ret.exc = "none"

C18_UpdateQuery ==
    UpdateReturned =>
        IF arg.query = PyNone
        THEN urls[ret.id].query = <<>>
        ELSE Updated(query_to_pairs(urls[orig].query),
                     pairs_of(arg.query),
                     query_to_pairs(urls[ret.id].query))

\* C18 as stated: for every q, None included
C18_Original ==
    UpdateReturned =>
        Updated(query_to_pairs(urls[orig].query),
                IF arg.query = PyNone THEN <<>> ELSE pairs_of(arg.query),
                query_to_pairs(urls[ret.id].query))

\* '?a=b&c=e&c=f' updated with c='d' is '?a=b&c=d'
C18_Witness ==
    /\ UpdateReturned
    /\ arg.query = PyValue("list", FALSE, <<<<<<99>>, <<100>>>>>>)
    /\ urls[orig].query = <<97, 61, 98, 38, 99, 61, 101, 38, 99, 61, 102>>
    /\ urls[ret.id].query = <<97, 61, 98, 38, 99, 61, 100>>

(* C19: for a URL with a host, a scheme that has the default port d and no
   port in its string form, with_port(d) gives a URL whose string form has
   no port either and whose port is d; its explicit_port is d, the port
   that was given. *)
port_in_str(url) == split_netloc(split_url(URL__str__(url)).netloc).port

DefaultPortGiven ==
    /\ arg.op = "with_port"
    /\ ret.exc = "none"
    /\ urls[orig].host # None
    /\ DEFAULT_PORTS(urls[orig].scheme) # NoPort
    /\ port_in_str(urls[orig]) = NoPort
    /\ arg.port.type = "int"
    /\ arg.port.value = DEFAULT_PORTS(urls[orig].scheme)

PathReplaced ==
    /\ arg.op \in {"with_path", "with_name", "with_suffix"}
    /\ ret.exc = "none"

SameAuthority(a, b) ==
    /\ a.scheme = b.scheme
    /\ a.user = b.user
    /\ a.password = b.password
    /\ a.host = b.host
    /\ a.port = b.port

C21_PathClears ==
    PathReplaced =>
        /\ SameAuthority(urls[ret.id], urls[orig])
        /\ urls[ret.id].query = <<>>
        /\ urls[ret.id].fragment = <<>>

\* C21 as stated: with_path keeps query and fragment
C21_Original ==
    PathReplaced =>
        /\ SameAuthority(urls[ret.id], urls[orig])
        /\ IF arg.op = "with_path"
           THEN /\ urls[ret.id].query = urls[orig].query
                /\ urls[ret.id].fragment = urls[orig].fragment
           ELSE /\ urls[ret.id].query = <<>>
                /\ urls[ret.id].fragment = <<>>

\* with_path has returned, on a URL with a query and a fragment
C21_Witness ==
    /\ PathReplaced
    /\ arg.op = "with_path"
    /\ Len(urls[orig].query) > 0
    /\ Len(urls[orig].fragment) > 0
    /\ urls[ret.id].path # urls[orig].path

(* C22: for a base with a host and the path "/a", join gives, for the
   reference "b/c", the URL of the base with the path "/b/c" (the last
   segment of the base path is replaced); for "/x", the URL of the base with
   the path "/x"; for "//other/y", the scheme of the base with the host
   "other" and the path "/y". The results have no query and no fragment. *)
JoinedOnA ==
    /\ arg.op = "join"
    /\ ret.exc = "none"
    /\ urls[orig].host # None
    /\ urls[orig].path = <<47, 97>>

Resolved(path_of_relative) ==
    LET base == urls[orig]
        res == urls[ret.id]
    IN  /\ arg.str = <<98, 47, 99>> =>
              /\ SameAuthority(res, base)
              /\ res.path = path_of_relative
        /\ arg.str = <<47, 120>> =>
              /\ SameAuthority(res, base)
              /\ res.path = <<47, 120>>
        /\ arg.str = <<47, 47, 111, 116, 104, 101, 114, 47, 121>> =>
              /\ res.scheme = base.scheme
              /\ res.host = <<111, 116, 104, 101, 114>>
              /\ res.user = None /\ res.password = None /\ res.port = NoPort
              /\ res.path = <<47, 121>>
        /\ arg.str \in {<<98, 47, 99>>, <<47, 120>>,
                        <<47, 47, 111, 116, 104, 101, 114, 47, 121>>} =>
              res.query = <<>> /\ res.fragment = <<>>

C22_Join == JoinedOnA => Resolved(<<47, 98, 47, 99>>)

\* C22 as stated: joining b/c gives the path /a/b/c
C22_Original == JoinedOnA => Resolved(<<47, 97, 47, 98, 47, 99>>)

\* URL("http://h:81/a").join(URL("b/c")) is URL("http://h:81/b/c")
C22_Witness ==
    /\ JoinedOnA
    /\ arg.str = <<98, 47, 99>>
    /\ URL__str__(urls[ret.id]) =
           <<104, 116, 116, 112, 58, 47, 47, 104, 58, 56, 49, 47, 98, 47, 99>>

(* C23: a quoter call that a thread makes while other threads make theirs
   returns or raises what the same call does when it is run alone, although
   every call starts writing into the same static BUFFER *)
C23_NoInterference ==
    \A t \in DOMAIN calls :
        calls[t].pc \in {"finally", "done"}
            => calls[t].ret
                   = _Quoter__call__(quoter, calls[t].val, calls[t].avail)

(* C24: the unquoter returns a string for every string and every
   configuration and never raises; "%zz", "%-1" and "% 4", where the two
   characters after '%' are not both hexadecimal digits, are not decoded *)
Malformed == {<<37, 122, 122>>, <<37, 45, 49>>, <<37, 32, 52>>}

C24_Total ==
    pc = "unquoted"
        => /\ ret.exc = "none"
           /\ arg \in Malformed => ret.str = arg

(* C25: when a _Quoter call ends without an error, the changed flag of its
   writer is false if and only if the characters written are exactly the
   characters of the input (and the input itself is returned only then) *)
C25_Changed ==
    pc = "quoted" /\ ret.exc = "none"
        => LET writer == _do_quote_loop(
                   quoter, arg,
                   _do_quote_locals(_init_writer(MaxAllocs))).writer
           IN  ~writer.changed <=> writer.buf = arg

(* C26: the quoter terminates: a call that has entered its loop leaves it
   and ends; when the index is moved back after a malformed percent sequence
   (by 2 after three characters were read, by 1 after two characters were
   read at the end of the input) it stays greater than the index of the '%'
   that started the sequence, and no sequence is open any more *)
MovedBack(t) ==
    /\ calls[t].pc = "loop"
    /\ calls'[t].pc = "loop"
    /\ calls'[t] # calls[t]
    /\ calls'[t].st.idx <= calls[t].st.idx

C26_Terminates ==
    /\ [][\A t \in DOMAIN calls :
            MovedBack(t)
                => /\ calls[t].st.has_pct \in {1, 2}
                   /\ calls'[t].st.idx = (calls[t].st.idx + 1)
                                             - calls[t].st.has_pct
                   /\ calls'[t].st.idx > calls[t].st.idx - calls[t].st.has_pct
                   /\ calls[t].st.has_pct = 1
                          => calls[t].st.idx + 1 = Len(calls[t].val)
                   /\ calls'[t].st.has_pct = 0]_vars
    /\ \A t \in 1..MaxThreads :
           (calls[t].pc = "loop") ~> (calls[t].pc = "done")

\* a call on "%zz" and a call on "a%z" have ended
C26_Witness ==
    \E t, u \in DOMAIN calls :
        /\ calls[t].pc = "done"
        /\ calls[t].val = <<37, 122, 122>>
        /\ calls[t].st.idx = 3
        /\ calls[u].pc = "done"
        /\ calls[u].val = <<97, 37, 122>>
        /\ calls[u].st.idx = 3

(* C27: an escape of the input that decodes to a character of the unsafe
   string of the unquoter stays percent-encoded, with uppercase digits, in
   the output, and the character is never output as it is (it is in the
   output only when the input has it outside an escape) *)
C27_UnsafeEncoded ==
    pc = "unquoted" /\ ret.exc = "none"
        => /\ \A c \in Range(unquoter.unsafe) :
                  c \notin Range(arg) => c \notin Range(ret.str)
           /\ \A c \in Range(unquoter.unsafe) :
                  /\ Len(arg) = 3
                  /\ EscapeAt(arg, 1)
                  /\ _restore_ch(arg[2], arg[3]) = c
                  => ret.str = <<37, HexChar(c \div 16), HexChar(c % 16)>>

(* C28: for a string without '%' and without surrogate, the default
   unquoter returns the string when it is given what the default quoter
   returned for the string *)
Decodable(val) ==
    \A i \in 1..Len(val) :
        val[i] # 37 /\ (val[i] < 55296 \/ val[i] > 57343)

DefaultQuoted ==
    /\ pc = "quoted"
    /\ quoter = _Quoter__init__(<<>>, <<>>, FALSE)
    /\ unquoter = DefaultUnquoter
    /\ ret.exc = "none"
    /\ Decodable(arg)

C28_QuoteUnquote ==
    DefaultQuoted => _Unquoter__call__(unquoter, ret.str) = Returned(arg)

\* U+00E9 with U+20AC after it was quoted as "%C3%A9%E2%82%AC"
C28_Witness ==
    /\ DefaultQuoted
    /\ arg = <<233, 8364>>
    /\ ret.str = <<37, 67, 51, 37, 65, 57, 37, 69, 50, 37, 56, 50, 37, 65, 67>>

(* C29: for every string and every configuration, _quote of _quoting.pyx
   returns the string that the _Quoter made with the same safe, protected
   and qs returns (the allocator not failing) *)
C29_SameQuoting ==
    pc = "quoted" /\ ret.exc = "none"
        => \A safe \in SafeArgs, protected \in ProtectedArgs, qs \in BOOLEAN :
               quoter = _Quoter__init__(safe, protected, qs)
                   => _quote(arg, safe, protected, qs) = ret

(* C30: in every state of a _Quoter call 0 <= pos <= size and the characters
   stored are below size; an iteration, also one that makes the buffer grow,
   keeps the characters written before it; the static BUFFER is never freed
   and keeps its size; a buffer that the call allocated is freed when the
   call ends, also when it ends with an error *)
WriterInBounds(t) ==
    LET writer == calls[t].st.writer
    IN  /\ 0 <= writer.pos
        /\ writer.pos <= writer.size
        /\ Len(_writer_buf(BUFFER, writer).buf) = writer.pos
        /\ ~writer.heap => writer.size = BUF_SIZE

Allocated(t) == calls[t].st.writer.avail < calls[t].avail

ReleasedRight(t) ==
    /\ calls[t].freed => Allocated(t)
    /\ calls[t].pc = "done" /\ Allocated(t) => calls[t].freed

KeepsWritten(t) ==
    calls[t].pc = "loop" /\ calls'[t].pc = "loop" /\ calls'[t] # calls[t]
        => LET before == _writer_buf(BUFFER, calls[t].st.writer)
               after == _writer_buf(BUFFER', calls'[t].st.writer)
           IN  /\ before.pos <= after.pos
               /\ SubSeq(after.buf, 1, before.pos) = before.buf

C30_WriterSafe ==
    /\ [](\A t \in DOMAIN calls : WriterInBounds(t) /\ ReleasedRight(t))
    /\ [](pc = "threads" => Len(BUFFER) = BUF_SIZE)
    /\ [][\A t \in DOMAIN calls : KeepsWritten(t)]_vars

\* a call has ended with MemoryError at its second growth and has freed the
\* buffer it had allocated at the first one
C30_Witness ==
    \E t \in DOMAIN calls :
        /\ calls[t].pc = "done"
        /\ calls[t].ret.exc = "MemoryError"
        /\ calls[t].st.writer.size = 2 * BUF_SIZE
        /\ calls[t].st.writer.pos = 2 * BUF_SIZE
        /\ calls[t].freed

====
